---- MODULE Spec2Model ----
(***************************************************************************)
(* A model of the rustracer crate: Colour / Material values, the Triangle *)
(* primitive and its ray intersection, the index-synchronised             *)
(* PrimitivesWithMaterials collection with its closest-hit query, and the *)
(* recursive tracer of Scene.                                             *)
(*                                                                         *)
(* Numbers.  The crate computes in f32.  The model computes in exact      *)
(* rational arithmetic: a scalar is a pair <<n, d>> with d > 0 in lowest  *)
(* terms, and <<0, 0>> is NaN (the only non-finite value the modelled     *)
(* code can produce, by 0.0 / 0.0).  A point or vector is <<x, y, z, w>>, *)
(* standing for (x/w, y/w, z/w), w > 0, in lowest terms.                  *)
(*                                                                         *)
(* Unit vectors.  Unit::new_normalize(v) = v / |v| cannot be written with *)
(* rationals.  A unit vector is represented by the shortest integer       *)
(* vector of the same direction (v divided by the gcd of its entries),    *)
(* so two unit vectors are equal exactly when their representatives are;  *)
(* the normalisation of the zero vector (NaN entries) is <<0, 0, 0, 0>>.  *)
(* Every use the code makes of a unit vector is rewritten so that the     *)
(* positive factor |v| cancels; each place says how.                      *)
(***************************************************************************)
EXTENDS Integers, Sequences, FiniteSets, TLC

----------------------------------------------------------------------------
(* Scalars (crate::Scalar = f32, src/src/lib.rs:1) as exact rationals.     *)

Abs(n) == IF n < 0 THEN -n ELSE n

RECURSIVE Gcd(_, _)
Gcd(a, b) == IF b = 0 THEN Abs(a) ELSE Gcd(b, a % b)

NaN == <<0, 0>>

Sign(n) == IF n < 0 THEN -1 ELSE 1

\* n/d for d > 0, both divided by their common divisor g
Lowest(n, d, g) == <<n \div g, d \div g>>

\* The rational n/d in lowest terms with a positive denominator; 0/0 is NaN.
Q(n, d) ==
    IF d = 0 THEN NaN
    ELSE Lowest(Sign(d) * n, Abs(d), Gcd(Abs(n), Abs(d)))

QInt(n) == <<n, 1>>
QIsNaN(a) == a[2] = 0
QAdd(a, b) == IF QIsNaN(a) \/ QIsNaN(b) THEN NaN
              ELSE Q(a[1] * b[2] + b[1] * a[2], a[2] * b[2])
QNeg(a) == IF QIsNaN(a) THEN NaN ELSE <<-a[1], a[2]>>
QSub(a, b) == QAdd(a, QNeg(b))
QMul(a, b) == IF QIsNaN(a) \/ QIsNaN(b) THEN NaN
              ELSE Q(a[1] * b[1], a[2] * b[2])
\* a / b; the model never divides a non-zero number by zero (that would be
\* an infinity), 0.0 / 0.0 and anything with a NaN operand is NaN.
QDiv(a, b) == IF QIsNaN(a) \/ QIsNaN(b) THEN NaN
              ELSE Q(a[1] * b[2], a[2] * b[1])
\* f32 comparisons: every comparison with NaN is false.
QLt(a, b) == ~QIsNaN(a) /\ ~QIsNaN(b) /\ a[1] * b[2] < b[1] * a[2]
QEq(a, b) == ~QIsNaN(a) /\ ~QIsNaN(b) /\ a = b
QGt(a, b) == QLt(b, a)
Zero == QInt(0)
One == QInt(1)
Half == Q(1, 2)

----------------------------------------------------------------------------
(* f32 with its rounding, for the Colour conversions, whose results depend *)
(* on it.  A value is <<s, m, e>>, standing for s * m * 2^e: s is 1 or -1, *)
(* m is 0 (and e is 0) or a 24-bit mantissa 2^23 <= m < 2^24.  <<0, 0, 0>> *)
(* is NaN.  Every operation rounds to nearest, ties to even.  Infinities,  *)
(* the negative zero and the subnormal numbers are left out: the values    *)
(* the model computes with stay far from the ends of the exponent range,   *)
(* and every divisor of the modelled code is 255.0 or at least 1.0.        *)
(* All intermediate integers stay below 2^31.                              *)

Two12 == 2 ^ 12
Two22 == 2 ^ 22
Two23 == 2 ^ 23
Two24 == 2 ^ 24

F32NaN == <<0, 0, 0>>
F32Zero == <<1, 0, 0>>
F32IsNaN(a) == a[1] = 0
F32IsZero(a) == a[1] # 0 /\ a[2] = 0

\* s * m * 2^e for 0 < m < 2^24, with the mantissa brought to 24 bits
RECURSIVE F32Normal(_, _, _)
F32Normal(s, m, e) ==
    IF m >= Two23 THEN <<s, m, e>> ELSE F32Normal(s, 2 * m, e - 1)

\* n as f32, for an integer |n| < 2^24 (exact)
F32FromInt(n) == IF n = 0 THEN F32Zero ELSE F32Normal(Sign(n), Abs(n), 0)

\* the mantissa m with a carry out of its 24 bits moved to the exponent
F32Carry(s, m, e) == IF m = Two24 THEN <<s, Two23, e + 1>> ELSE <<s, m, e>>

\* a faulty rounding that drops the bits beyond the mantissa
F32Truncate(s, q25, sticky, e) == <<s, q25 \div 2, e>>

\* s * (q25 / 2) * 2^e rounded to nearest, ties to even: q25 is the 24-bit
\* mantissa followed by one more bit, sticky tells whether non-zero bits
\* follow that one
F32Round(s, q25, sticky, e) ==
    F32Carry(s,
             (q25 \div 2)
               + (IF (q25 % 2) = 1 /\ (sticky \/ ((q25 \div 2) % 2) = 1)
                  THEN 1 ELSE 0),
             e)

\* binary long division: bits more quotient bits of rem / d appended to q,
\* for rem < d; the result is <<quotient, remainder>>
RECURSIVE LongDiv(_, _, _, _)
LongDiv(rem, d, bits, q) ==
    IF bits = 0 THEN <<q, rem>>
    ELSE IF 2 * rem >= d THEN LongDiv(2 * rem - d, d, bits - 1, 2 * q + 1)
         ELSE LongDiv(2 * rem, d, bits - 1, 2 * q)

F32DivRound(s, qr, e) == F32Round(s, qr[1], qr[2] # 0, e)

\* a / b
F32Div(a, b) ==
    IF F32IsNaN(a) \/ F32IsNaN(b) \/ F32IsZero(b) THEN F32NaN
    ELSE IF F32IsZero(a) THEN F32Zero
    ELSE IF a[2] >= b[2]
         THEN F32DivRound(a[1] * b[1], LongDiv(a[2] - b[2], b[2], 24, 1),
                          a[3] - b[3] - 23)
         ELSE F32DivRound(a[1] * b[1], LongDiv(a[2], b[2], 25, 0),
                          a[3] - b[3] - 24)

\* the 48-bit product ma * mb of two mantissas in 12-bit pieces: the sum
\* of the two middle products and the carry of the low one, then the high
\* 24 bits and the low 24 bits of the product
MulMid(ma, mb) ==
    ((ma \div Two12) * (mb % Two12)) + ((ma % Two12) * (mb \div Two12))
        + (((ma % Two12) * (mb % Two12)) \div Two12)
MulHigh(ma, mb) ==
    ((ma \div Two12) * (mb \div Two12)) + (MulMid(ma, mb) \div Two12)
MulLow(ma, mb) ==
    (MulMid(ma, mb) % Two12) * Two12
        + (((ma % Two12) * (mb % Two12)) % Two12)

F32MulRound(s, high, low, e) ==
    IF high >= Two23
    THEN F32Round(s, (2 * high) + (low \div Two23), (low % Two23) # 0,
                  e + 24)
    ELSE F32Round(s, (4 * high) + (low \div Two22), (low % Two22) # 0,
                  e + 23)

\* a * b
F32Mul(a, b) ==
    IF F32IsNaN(a) \/ F32IsNaN(b) THEN F32NaN
    ELSE IF F32IsZero(a) \/ F32IsZero(b) THEN F32Zero
    ELSE F32MulRound(a[1] * b[1], MulHigh(a[2], b[2]), MulLow(a[2], b[2]),
                     a[3] + b[3])

\* -1, 0 or 1
F32Sign(a) == IF a[2] = 0 THEN 0 ELSE a[1]

\* |a| < |b|
F32MagLt(a, b) ==
    IF b[2] = 0 THEN FALSE
    ELSE IF a[2] = 0 THEN TRUE
    ELSE a[3] < b[3] \/ (a[3] = b[3] /\ a[2] < b[2])

\* a < b; false when either is NaN
F32Lt(a, b) ==
    /\ ~F32IsNaN(a)
    /\ ~F32IsNaN(b)
    /\ IF F32Sign(a) # F32Sign(b) THEN F32Sign(a) < F32Sign(b)
       ELSE IF F32Sign(a) > 0 THEN F32MagLt(a, b)
       ELSE IF F32Sign(a) < 0 THEN F32MagLt(b, a)
       ELSE FALSE
F32Gt(a, b) == F32Lt(b, a)

\* a faulty max that always takes its receiver
F32Max_self(a, b) == a

\* f32::max: the larger; the other one when one is NaN
F32Max(a, b) ==
    IF F32IsNaN(a) THEN b
    ELSE IF F32IsNaN(b) THEN a
    ELSE IF F32Lt(a, b) THEN b ELSE a

\* the integer part of m * 2^e for e < 0
F32Floor(m, e) == IF e <= -24 THEN 0 ELSE m \div (2 ^ (-e))

\* a faulty cast that rounds to the nearest integer
F32ToU8_nearest(a) ==
    IF F32IsNaN(a) \/ F32Sign(a) <= 0 THEN 0
    ELSE IF a[3] >= 0 THEN 255
    ELSE IF a[3] <= -25 THEN 0
    ELSE IF ((a[2] \div (2 ^ (-a[3] - 1))) + 1) \div 2 >= 255 THEN 255
    ELSE ((a[2] \div (2 ^ (-a[3] - 1))) + 1) \div 2

\* a as u8: the integer part, saturating at 0 and 255; NaN gives 0
F32ToU8(a) ==
    IF F32IsNaN(a) \/ F32Sign(a) <= 0 THEN 0
    ELSE IF a[3] >= 0 THEN 255
    ELSE IF F32Floor(a[2], a[3]) >= 255 THEN 255
    ELSE F32Floor(a[2], a[3])

----------------------------------------------------------------------------
(* Point3 / Vector3 (src/src/lib.rs:4-5) as exact rational triples.        *)

Gcd4(x, y, z, w) == Gcd(Gcd(Abs(x), Abs(y)), Gcd(Abs(z), Abs(w)))

\* (x/w, y/w, z/w) for w > 0, all divided by their common divisor g
Lowest4(x, y, z, w, g) == <<x \div g, y \div g, z \div g, w \div g>>

\* (x/w, y/w, z/w) in lowest terms; a zero denominator is the NaN vector.
Vec(x, y, z, w) ==
    IF w = 0 THEN <<0, 0, 0, 0>>
    ELSE Lowest4(Sign(w) * x, Sign(w) * y, Sign(w) * z, Abs(w),
                 Gcd4(x, y, z, w))

P3(x, y, z) == <<x, y, z, 1>>
VIsNaN(v) == v[4] = 0
NaNVec == <<0, 0, 0, 0>>

VAdd(a, b) == IF VIsNaN(a) \/ VIsNaN(b) THEN NaNVec
              ELSE Vec(a[1] * b[4] + b[1] * a[4], a[2] * b[4] + b[2] * a[4],
                       a[3] * b[4] + b[3] * a[4], a[4] * b[4])
VSub(a, b) == IF VIsNaN(a) \/ VIsNaN(b) THEN NaNVec
              ELSE Vec(a[1] * b[4] - b[1] * a[4], a[2] * b[4] - b[2] * a[4],
                       a[3] * b[4] - b[3] * a[4], a[4] * b[4])
\* scalar * vector
VScale(q, v) == IF QIsNaN(q) \/ VIsNaN(v) THEN NaNVec
                ELSE Vec(q[1] * v[1], q[1] * v[2], q[1] * v[3], q[2] * v[4])
VDot(a, b) == IF VIsNaN(a) \/ VIsNaN(b) THEN NaN
              ELSE Q(a[1] * b[1] + a[2] * b[2] + a[3] * b[3], a[4] * b[4])
VCross(a, b) == IF VIsNaN(a) \/ VIsNaN(b) THEN NaNVec
                ELSE Vec(a[2] * b[3] - a[3] * b[2], a[3] * b[1] - a[1] * b[3],
                         a[1] * b[2] - a[2] * b[1], a[4] * b[4])

\* nalgebra Unit::new_normalize(v): the representative of v / |v| (see the
\* module comment); normalising the zero vector or a NaN vector gives NaN.
new_normalize(v) ==
    IF VIsNaN(v) \/ (v[1] = 0 /\ v[2] = 0 /\ v[3] = 0) THEN NaNVec
    ELSE Lowest4(v[1], v[2], v[3], Gcd(Gcd(Abs(v[1]), Abs(v[2])), Abs(v[3])),
                 Gcd(Gcd(Abs(v[1]), Abs(v[2])), Abs(v[3])))

\* Option<T>: None is the empty tuple, Some(x) is <<x>>.
None == <<>>
Some(x) == <<x>>
unwrap(o) == o[1]

----------------------------------------------------------------------------
(* Colour and Material.                                                    *)

Colour(r, g, b) == [red |-> r, green |-> g, blue |-> b]

\* #[derive(Default)] of Colour: all channels 0.0
ColourDefault == Colour(Zero, Zero, Zero)

\* impl_op_ex!(+ |a: &Colour, b: &Colour|) and +=
ColourAdd(a, b) == Colour(QAdd(a.red, b.red), QAdd(a.green, b.green),
                          QAdd(a.blue, b.blue))

\* impl_op_ex!(* |a: &Colour, b: &Colour|)
ColourMul(a, b) == Colour(QMul(a.red, b.red), QMul(a.green, b.green),
                          QMul(a.blue, b.blue))

\* impl_op_ex!(/ |c: &Colour, s: &f32|) and /=
ColourDivScalar(c, s) == Colour(QDiv(c.red, s), QDiv(c.green, s),
                                QDiv(c.blue, s))

Material(e, d) == [emission |-> e, diffuse |-> d]

\* #[derive(Default)] of Material
MaterialDefault == Material(ColourDefault, ColourDefault)

----------------------------------------------------------------------------
(* Colour::clamped and the conversions from and to Rgb<u8>, with the       *)
(* channels as f32 values <<s, m, e>>.                                     *)

F32One == F32FromInt(1)
F32Byte == F32FromInt(255)

\* the f32 nearest to n / d
F32Of(n, d) == F32Div(F32FromInt(n), F32FromInt(d))

\* a call returns a value, or panics
Ok(x) == <<"ok", x>>
Panic == <<"panic">>
returned(o) == o[2]

\* impl_op_ex!(/ |c: &Colour, s: &f32|) and (* |c: &Colour, s: &f32|)
Colour_div(c, s) ==
    Colour(F32Div(c.red, s), F32Div(c.green, s), F32Div(c.blue, s))
Colour_mul(c, s) ==
    Colour(F32Mul(c.red, s), F32Mul(c.green, s), F32Mul(c.blue, s))

\* a faulty step that keeps the smaller
max_by_smaller(x, y) == IF F32Lt(x, y) THEN x ELSE y

\* one step of Iterator::max_by: x is kept when compare(x, y) is Greater
max_by(x, y) == IF F32Gt(x, y) THEN x ELSE y

\* components.iter().max_by(|a, b| a.partial_cmp(b).unwrap()).unwrap()
\* for channels none of which is NaN
components_max(self) == max_by(max_by(self.red, self.green), self.blue)

HasNaN(self) ==
    F32IsNaN(self.red) \/ F32IsNaN(self.green) \/ F32IsNaN(self.blue)

\* Colour::clamped: self / norm.max(1.0).  A NaN channel is met by one of
\* the two comparisons of max_by, whose partial_cmp is then None: unwrap
\* panics.
clamped(self) ==
    IF HasNaN(self) THEN Panic
    ELSE Ok(Colour_div(self, F32Max(components_max(self), F32One)))

\* cl.0[i] as f32 / 255.0, for each u8
channel_of == [byte \in 0 .. 255 |-> F32Div(F32FromInt(byte), F32Byte)]

\* impl From<Rgb<u8>> for Colour
Colour_from(cl) ==
    Colour(channel_of[cl[1]], channel_of[cl[2]], channel_of[cl[3]])

\* Rgb([self_byted.red as u8, self_byted.green as u8, self_byted.blue as u8])
Rgb_of(self_byted) ==
    <<F32ToU8(self_byted.red), F32ToU8(self_byted.green),
      F32ToU8(self_byted.blue)>>

\* let self_byted = self.clamped() * 255.0, given the outcome of clamped
Colour_into_from(o) ==
    IF o = Panic THEN Panic ELSE Ok(Rgb_of(Colour_mul(returned(o), F32Byte)))

\* a faulty conversion that leaves the clamping out
Colour_into_unclamped(self) == Colour_into_from(Ok(self))

\* impl Into<Rgb<u8>> for Colour
Colour_into(self) == Colour_into_from(clamped(self))

----------------------------------------------------------------------------
(* Ray.                                                                    *)

\* Ray::new(origin, direction): the direction is normalised.
Ray_new(origin, direction) ==
    [origin |-> origin, direction |-> new_normalize(direction)]

----------------------------------------------------------------------------
(* Triangle.                                                               *)

\* Triangle::calculate_normal: the unit vector of (v1 - v0) x (v2 - v0).
calculate_normal(vertices) ==
    LET e1 == VSub(vertices[2], vertices[1])
        e2 == VSub(vertices[3], vertices[1])
    IN  new_normalize(VCross(e1, e2))

\* Triangle::new(vertices, colour)
Triangle_new(vertices, colour) ==
    [vertices |-> vertices, normal |-> calculate_normal(vertices),
     colour |-> colour]

\* Triangle::get_v(index), index counted from 0
get_v(self, index) == self.vertices[index + 1]

\* Triangle::get_normal
get_normal(self) == self.normal

\* Triangle::new_triangle_colour(t, colour): the vertices and the normal of t
new_triangle_colour(t, colour) ==
    [vertices |-> t.vertices, normal |-> t.normal, colour |-> colour]

\* self.vertices[index] = value
with_v(vertices, index, value) == [vertices EXCEPT ![index + 1] = value]

\* a faulty set_v that keeps the normal of the old vertices
set_v_stale_normal(self, index, value) ==
    [vertices |-> with_v(self.vertices, index, value),
     normal |-> self.normal,
     colour |-> self.colour]

\* Triangle::set_v(index, value): store the vertex, recompute the normal
set_v(self, index, value) ==
    [vertices |-> with_v(self.vertices, index, value),
     normal |-> calculate_normal(with_v(self.vertices, index, value)),
     colour |-> self.colour]

\* Triangle::is_inside(point): the three edge tests, each strictly positive.
\* norm is the representative of the unit normal, a positive multiple of
\* it, so the sign of each dot product is the one the code computes; with
\* a NaN normal every comparison is false.
is_inside(self, point) ==
    LET edge1 == VSub(get_v(self, 1), get_v(self, 0))
        edge2 == VSub(get_v(self, 2), get_v(self, 1))
        edge3 == VSub(get_v(self, 0), get_v(self, 2))
        v1 == VSub(point, get_v(self, 0))
        v2 == VSub(point, get_v(self, 1))
        v3 == VSub(point, get_v(self, 2))
        norm == self.normal
    IN  /\ QGt(VDot(norm, VCross(edge1, v1)), Zero)
        /\ QGt(VDot(norm, VCross(edge2, v2)), Zero)
        /\ QGt(VDot(norm, VCross(edge3, v3)), Zero)

\* <Triangle as RayTraceable>::intersects(ray).
\* With N = |N| n and D = |D| d the representatives of the unit normal n
\* and the unit direction d, the code's
\*     t = -(n.origin + n.v0) / (n.d)
\* is |D| * s for s = -(N.origin + N.v0) / (N.D), so that t < 0 exactly
\* when s < 0, n.d = 0 exactly when N.D = 0, and the plane point
\* origin + t * d is origin + s * D.
\* The definitions below take the code's local variables as parameters,
\* innermost first.

\* if self.is_inside(&plane_point) { Some(plane_point) } else { None }
intersects_at(self, plane_point) ==
    IF is_inside(self, plane_point) THEN Some(plane_point) ELSE None

\* if t < 0.0 { return None; } let plane_point = ray.origin + t * direction
intersects_from(self, ray, s) ==
    IF QLt(s, Zero) THEN None
    ELSE intersects_at(self, VAdd(ray.origin, VScale(s, ray.direction)))

\* let t = -(norm.dot(&origin_vector) + distance_to_origin) / norm.dot(dir)
intersects_t(norm, a_vector, origin_vector, nd) ==
    QDiv(QNeg(QAdd(VDot(norm, origin_vector), VDot(norm, a_vector))), nd)

\* a faulty test that reports a parallel ray as hitting at its origin
intersects_plane_at_origin(self, ray, nd) ==
    IF QEq(Zero, nd) THEN Some(ray.origin)
    ELSE intersects_from(self, ray,
             intersects_t(self.normal,
                          VSub(get_v(self, 0), P3(0, 0, 0)),
                          VSub(ray.origin, P3(0, 0, 0)),
                          nd))

\* if 0.0 == norm.dot(&ray.direction) { return None; }
intersects_plane(self, ray, nd) ==
    IF QEq(Zero, nd) THEN None
    ELSE intersects_from(self, ray,
             intersects_t(self.normal,
                          VSub(get_v(self, 0), P3(0, 0, 0)),
                          VSub(ray.origin, P3(0, 0, 0)),
                          nd))

intersects(self, ray) ==
    intersects_plane(self, ray, VDot(self.normal, ray.direction))

\* PrimitivesWithMaterials<P: RayTraceable> holds any RayTraceable.  Beside
\* Triangle the model has the RayTraceable whose intersects returns the
\* same outcome for every ray.
Fixed(outcome) == [outcome |-> outcome]

\* t.intersects(&ray) for a RayTraceable t
RayTraceable_intersects(t, ray) ==
    IF "outcome" \in DOMAIN t THEN t.outcome ELSE intersects(t, ray)

\* (p - ray.origin).norm(), kept as its square: the code only compares
\* distances and tests them for NaN, and x -> x * x is increasing on
\* distances and keeps NaN.
norm_squared(v) == VDot(v, v)
distance(p, origin) == norm_squared(VSub(p, origin))

----------------------------------------------------------------------------
(* PrimitivesWithMaterials<Triangle>.                                      *)

\* PrimitivesWithMaterials::new
PrimitivesWithMaterials_new == [primitives |-> <<>>, materials |-> <<>>]

\* a faulty add that forgets the material
add_without_material(self, primitive, material) ==
    [primitives |-> Append(self.primitives, primitive),
     materials |-> self.materials]

\* a faulty add that inserts at the front
add_at_front(self, primitive, material) ==
    [primitives |-> <<primitive>> \o self.primitives,
     materials |-> <<material>> \o self.materials]

\* PrimitivesWithMaterials::add: push the primitive, push the material.
add(self, primitive, material) ==
    [primitives |-> Append(self.primitives, primitive),
     materials |-> Append(self.materials, material)]

\* get_primitive(index) / get_material(index), index counted from 0
get_primitive(self, index) == self.primitives[index + 1]
get_material(self, index) == self.materials[index + 1]

\* a faulty filter that drops nothing
keep_distance_always(d) == TRUE

\* a faulty filter that also drops the hits at distance zero
keep_distance_positive(d) == ~QIsNaN(d) /\ QGt(d, Zero)

\* .filter(|(_, _, d)| !d.is_nan())
keep_distance(d) == ~QIsNaN(d)

\* faulty comparisons: the farthest hit wins; the last of equal hits wins
is_less(d1, d2) == QLt(d1, d2)
is_greater_or_equal(d1, d2) == QGt(d1, d2) \/ QEq(d1, d2)

\* d1.partial_cmp(&d2).unwrap() == Ordering::Greater (the distances that
\* reach the comparison are not NaN: they passed the filter)
is_greater(d1, d2) == QGt(d1, d2)

\* enumerate + filter_map + map + filter of closest_hit: the triples
\* <<i, p, d>> of the primitives from index i on that the ray hits, in
\* index order.
\* .filter(...): the triple <<i, p, d>> is kept or dropped
filter_candidate(i, p, d, rest) ==
    IF keep_distance(d) THEN <<<<i, p, d>>>> \o rest ELSE rest

\* .filter_map(...).map(...): the outcome o of intersects for primitive i
map_candidate(i, o, ray, rest) ==
    IF o = None THEN rest
    ELSE filter_candidate(i, unwrap(o), distance(unwrap(o), ray.origin), rest)

RECURSIVE hit_candidates(_, _, _)
hit_candidates(self, ray, i) ==
    IF i >= Len(self.primitives) THEN <<>>
    ELSE map_candidate(i, RayTraceable_intersects(self.primitives[i + 1], ray), ray,
                       hit_candidates(self, ray, i + 1))

\* Iterator::min_by: a left fold that replaces the running minimum x by the
\* next element y only when compare(x, y) is Greater.
RECURSIVE min_fold(_, _)
min_fold(x, items) ==
    IF items = <<>> THEN x
    ELSE LET y == Head(items)
         IN  min_fold(IF is_greater(x[3], y[3]) THEN y ELSE x, Tail(items))

min_by(items) == IF items = <<>> THEN None
                 ELSE Some(min_fold(Head(items), Tail(items)))

\* PrimitivesWithMaterials::closest_hit(ray) -> Option<HitResult>
\* .map(|(i, p, _)| HitResult { point: p, index: i })
HitResult(hit) ==
    IF hit = None THEN None
    ELSE Some([point |-> unwrap(hit)[2], index |-> unwrap(hit)[1]])

closest_hit(self, ray) == HitResult(min_by(hit_candidates(self, ray, 0)))

----------------------------------------------------------------------------
(* Scene::get_reflected_ray.  A Unit<Vector3> is held as the integer       *)
(* vector of its direction; its entries are those divided by its length,   *)
(* which is a number of the model when it is an integer.                   *)

\* the length of an integer vector whose length is an integer
Length(u) ==
    CHOOSE k \in 0 .. Abs(u[1]) + Abs(u[2]) + Abs(u[3]) :
        k * k = u[1] * u[1] + u[2] * u[2] + u[3] * u[3]

\* Unit::into_inner: the vector of length 1
into_inner(u) == IF VIsNaN(u) THEN NaNVec ELSE Vec(u[1], u[2], u[3], Length(u))

\* Reflection::new_containing_point(axis, pt) followed by reflect(&mut v):
\*     bias = axis.dot(pt); v += -2 * (axis.dot(v) - bias) * axis
\* for the unit vector axis = n / |n|
reflect(n, pt, v) ==
    VAdd(v, VScale(QMul(QInt(-2), QDiv(QSub(VDot(n, v), VDot(n, pt)), VDot(n, n))), n))

\* 2.0 * Scalar::EPSILON
TwoEpsilon == Q(1, 2 ^ 22)

\* Ray { origin: hit.point + 2.0 * EPSILON * reflected_direction,
\*       direction: reflected_direction }
\* The origin is held as the point, the factor and the direction it is
\* moved along.
Ray_moved(point, reflected_direction) ==
    [origin |-> [point |-> point, by |-> TwoEpsilon,
                 along |-> reflected_direction],
     direction |-> reflected_direction]

\* Scene::get_reflected_ray(ray, hit), self.triangles given as primitives
get_reflected_ray(primitives, ray, hit) ==
    Ray_moved(hit.point,
              new_normalize(reflect(get_normal(get_primitive(primitives, hit.index)),
                                    hit.point, into_inner(ray.direction))))

----------------------------------------------------------------------------
(* TraceResult.                                                            *)

\* #[derive(Default)] of TraceResult
TraceResultDefault == [diffuse |-> ColourDefault, emission |-> ColourDefault]

\* a faulty add_light that gathers the diffuse field
add_light_diffuse(self, other) ==
    [self EXCEPT !.emission = ColourAdd(self.emission, other.diffuse)]

\* TraceResult::add_light(other)
add_light(self, other) ==
    [self EXCEPT !.emission = ColourAdd(self.emission, other.emission)]

\* a faulty apply_to that forgets the material's own emission
apply_to_without_emission(self, material) ==
    [emission |-> ColourMul(material.diffuse, self.emission),
     diffuse |-> ColourMul(material.diffuse, self.emission)]

\* TraceResult::apply_to(material)
apply_to(self, material) ==
    [emission |-> ColourAdd(material.emission,
                            ColourMul(material.diffuse, self.emission)),
     diffuse |-> ColourAdd(material.emission,
                           ColourMul(material.diffuse, self.emission))]

\* a faulty conversion that swaps the two fields
TraceResult_from_swapped(material) ==
    [emission |-> material.diffuse, diffuse |-> material.emission]

\* impl From<Material> for TraceResult
TraceResult_from(material) ==
    [emission |-> material.emission, diffuse |-> material.diffuse]

----------------------------------------------------------------------------
(* The transforms of nalgebra that Triangle and Ray are multiplied by.     *)
(* Each is the 4 x 4 homogeneous matrix                                    *)
(*     | scaling * linear   translation |                                  *)
(*     | normalizer         corner      |                                  *)
(* with integer entries; the kinds differ in the blocks they let vary.     *)

Identity3 == <<<<1, 0, 0>>, <<0, 1, 0>>, <<0, 0, 1>>>>
NoVector == <<0, 0, 0, 1>>

Matrix3(linear) ==
    [kind |-> "Matrix3", linear |-> linear, scaling |-> 1,
     translation |-> NoVector, normalizer |-> NoVector, corner |-> 1]
Rotation3(linear) ==
    [kind |-> "Rotation3", linear |-> linear, scaling |-> 1,
     translation |-> NoVector, normalizer |-> NoVector, corner |-> 1]
Translation3(translation) ==
    [kind |-> "Translation3", linear |-> Identity3, scaling |-> 1,
     translation |-> translation, normalizer |-> NoVector, corner |-> 1]
Isometry3(translation, linear) ==
    [kind |-> "Isometry3", linear |-> linear, scaling |-> 1,
     translation |-> translation, normalizer |-> NoVector, corner |-> 1]
Similarity3(translation, linear, scaling) ==
    [kind |-> "Similarity3", linear |-> linear, scaling |-> scaling,
     translation |-> translation, normalizer |-> NoVector, corner |-> 1]
Transform3(linear, translation, normalizer, corner) ==
    [kind |-> "Transform3", linear |-> linear, scaling |-> 1,
     translation |-> translation, normalizer |-> normalizer,
     corner |-> corner]
Matrix4(linear, translation, normalizer, corner) ==
    [kind |-> "Matrix4", linear |-> linear, scaling |-> 1,
     translation |-> translation, normalizer |-> normalizer,
     corner |-> corner]

\* matrix * vector, for a point or a vector <<x, y, z, w>>
MatVec(m, v) ==
    IF VIsNaN(v) THEN NaNVec
    ELSE Vec(m[1][1] * v[1] + m[1][2] * v[2] + m[1][3] * v[3],
             m[2][1] * v[1] + m[2][2] * v[2] + m[2][3] * v[3],
             m[3][1] * v[1] + m[3][2] * v[2] + m[3][3] * v[3],
             v[4])

\* q / n unless n is zero (Matrix::transform_point, transform_vector)
normalized(q, n) == IF QEq(n, Zero) THEN q ELSE VScale(QDiv(One, n), q)

\* a * point
transform_point(a, p) ==
    normalized(VAdd(VScale(QInt(a.scaling), MatVec(a.linear, p)),
                    a.translation),
               QAdd(VDot(a.normalizer, p), QInt(a.corner)))

\* a * vector: the translation does not act on a vector
transform_vector(a, v) ==
    IF QEq(VDot(a.normalizer, v), Zero)
    THEN VScale(QInt(a.scaling), MatVec(a.linear, v))
    ELSE VScale(QInt(a.scaling),
                MatVec(a.linear, VScale(QDiv(One, VDot(a.normalizer, v)), v)))

\* impl Mul<Triangle> for Matrix3, Rotation3, Translation3, Isometry3,
\* Similarity3, Transform3 and Matrix4: Triangle::new of the three
\* transformed vertices
Triangle_mul(a, b) ==
    Triangle_new(<<transform_point(a, b.vertices[1]),
                   transform_point(a, b.vertices[2]),
                   transform_point(a, b.vertices[3])>>,
                 b.colour)

\* a faulty normalisation that leaves the length as it is
norm_squared_kept(v) == VDot(v, v)

\* the squared length of Unit::new_normalize(v) = v / |v|: |v|^2 / |v|^2,
\* which is 1 unless v is the zero vector (0 / 0) or has a NaN entry
norm_squared_normalized(v) == QDiv(VDot(v, v), VDot(v, v))

\* impl Mul<Ray> for Matrix3, Rotation3, Translation3, Isometry3,
\* Similarity3, Transform3 and Matrix4: the origin is transformed as a
\* point; the direction is transformed as a vector and normalised, except
\* by a Translation3, which keeps it as it is.  The representative of the
\* unit direction stands for it in transform_vector: the positive factor
\* between the two cancels in the normalisation and in v / n.
Ray_mul(a, b) ==
    [origin |-> transform_point(a, b.origin),
     direction |-> IF a.kind = "Translation3" THEN b.direction
                   ELSE new_normalize(transform_vector(a, b.direction))]

\* the squared length of the direction of Ray_mul(a, b), b_norm being the
\* squared length of b.direction
Ray_mul_norm(a, b, b_norm) ==
    IF a.kind = "Translation3" THEN b_norm
    ELSE norm_squared_normalized(transform_vector(a, b.direction))

----------------------------------------------------------------------------
(* Viewport.  Point2 and Vector2 are pairs of scalars.  OpenSimplex is a   *)
(* function of the point it is asked at, given here by its graph on the    *)
(* one point the program asks it at; fovy is given by tan(fovy / 2), which *)
(* is all Perspective3::new takes of it.                                   *)

Vector2_new(x, y) == <<x, y>>
Vector2_scale(v, q) == <<QMul(v[1], q), QMul(v[2], q)>>
Point2_add(p, v) == <<QAdd(p[1], v[1]), QAdd(p[2], v[2])>>

\* Point3::new of three scalars
Point3_new(x, y, z) ==
    IF QIsNaN(x) \/ QIsNaN(y) \/ QIsNaN(z) THEN NaNVec
    ELSE Vec(x[1] * y[2] * z[2], y[1] * x[2] * z[2], z[1] * x[2] * y[2],
             x[2] * y[2] * z[2])

\* let pt = [0.0, 0.0]
NoisePoint == <<Zero, Zero>>

\* an OpenSimplex whose value at pt is at_pt
OpenSimplex_new(at_pt) == [pt \in {NoisePoint} |-> at_pt]

\* noise.get(pt) as f32
noise_get(noise, pt) == noise[pt]

\* a faulty sampling whose offsets grow with the index of the sample
coords_per_sample(noise, point_rays_count) ==
    [i \in 1 .. point_rays_count |->
        Vector2_scale(Vector2_new(QInt(i), noise_get(noise, NoisePoint)), Half)]

\* a faulty range 0..=point_rays_count
coords_inclusive(noise, point_rays_count) ==
    [i \in 1 .. point_rays_count + 1 |->
        Vector2_scale(Vector2_new(noise_get(noise, NoisePoint),
                                  noise_get(noise, NoisePoint)), Half)]

\* (0..point_rays_count).map(|_| Vector2::new(noise.get(pt), noise.get(pt)))
\*     .map(|v| v * 0.5), collected
coords(noise, point_rays_count) ==
    [i \in 1 .. point_rays_count |->
        Vector2_scale(Vector2_new(noise_get(noise, NoisePoint),
                                  noise_get(noise, NoisePoint)), Half)]

\* Perspective3::new(aspect, fovy, znear, zfar): the entries of its matrix
\* that unproject_point reads
Perspective3_new(aspect, tan_half_fovy, znear, zfar) ==
    [m11 |-> QDiv(One, QMul(aspect, tan_half_fovy)),
     m22 |-> QDiv(One, tan_half_fovy),
     m33 |-> QDiv(QAdd(zfar, znear), QSub(znear, zfar)),
     m34 |-> QDiv(QMul(QInt(2), QMul(zfar, znear)), QSub(znear, zfar))]

\* Viewport::new
Viewport_new(width, height, tan_half_fovy, znear, zfar, noise, point_rays_count) ==
    [width |-> QInt(width),
     height |-> QInt(height),
     projection |-> Perspective3_new(QDiv(QInt(width), QInt(height)),
                                     tan_half_fovy, znear, zfar),
     point_offsets |-> coords(noise, point_rays_count)]

\* Viewport::get_rays_count
get_rays_count(self) == Len(self.point_offsets)

\* Viewport::normalize_point
normalize_point(self, screen_point) ==
    <<QSub(QDiv(screen_point[1], self.width), Half),
      QSub(Half, QDiv(screen_point[2], self.height))>>

\* Perspective3::unproject_point of the point (x, y, z)
inverse_denom(projection, z) == QDiv(projection.m34, QAdd(z, projection.m33))
unproject_point(projection, x, y, z) ==
    Point3_new(QDiv(QMul(x, inverse_denom(projection, z)), projection.m11),
               QDiv(QMul(y, inverse_denom(projection, z)), projection.m22),
               QNeg(inverse_denom(projection, z)))

\* Ray::new(near, far - near)
ray_between(near, far) == Ray_new(near, VSub(far, near))

\* the ray through the normalised point pt: from the unprojection of
\* (pt, -1.0) towards that of (pt, 1.0)
ray_through(self, pt) ==
    ray_between(unproject_point(self.projection, pt[1], pt[2], QInt(-1)),
                unproject_point(self.projection, pt[1], pt[2], QInt(1)))

\* a faulty iteration that takes the offsets out of the Viewport
point_offsets_drained(self) == <<>>

\* self.point_offsets after self.point_offsets.iter() has been gone
\* through: iter() borrows the vector
point_offsets_iterated(self) == self.point_offsets

\* Viewport::cast_ray, collected
cast_ray(self, screen_point) ==
    [i \in 1 .. Len(self.point_offsets) |->
        ray_through(self,
            normalize_point(self,
                Point2_add(<<QInt(screen_point[1]), QInt(screen_point[2])>>,
                           self.point_offsets[i])))]

----------------------------------------------------------------------------
(* The values the model draws its inputs from.                             *)

\* the Rgb<u8> of the triangle tests (triangle.rs:157)
Rgb0 == <<255, 125, 12>>

\* the triangle of the scene tests, in the plane z = 0 (scene.rs:326-330)
TriA == Triangle_new(<<P3(1, -1, 0), P3(0, 1, 0), P3(-1, -1, 0)>>, Rgb0)
\* the same triangle in the plane z = 1 (scene.rs:499-503)
TriB == Triangle_new(<<P3(1, -1, 1), P3(0, 1, 1), P3(-1, -1, 1)>>, Rgb0)
\* the same triangle in the plane z = -1
TriC == Triangle_new(<<P3(1, -1, -1), P3(0, 1, -1), P3(-1, -1, -1)>>, Rgb0)
\* the triangle of the triangle tests, doubled (triangle.rs:238-243)
TriUp == Triangle_new(<<P3(0, 2, 0), P3(-1, 0, 0), P3(1, 0, 0)>>, Rgb0)
\* a triangle in the plane x + y + z = 3
TriTilt == Triangle_new(<<P3(3, 0, 0), P3(0, 3, 0), P3(0, 0, 3)>>, Rgb0)
\* a zero-area triangle: its normal is NaN
TriDeg == Triangle_new(<<P3(0, 0, 0), P3(1, 0, 0), P3(2, 0, 0)>>, Rgb0)

\* a RayTraceable that every ray hits in a point that is not a number
Lost == Fixed(Some(NaNVec))

\* the materials of the bouncing-rays test (scene.rs:211-223)
Yellow == Material(ColourDefault, Colour(Q(3, 4), One, Zero))
Red == Material(ColourDefault, Colour(One, Zero, Zero))
\* a material that emits light
Lamp == Material(Colour(One, Half, Zero), Colour(Half, Half, Half))

\* the default material of the bouncing-rays test (scene.rs:191-196):
\* diffuse black, emission white
White == Material(Colour(One, One, One), ColourDefault)
\* a default material whose emission is not white
Dusk == Material(Colour(Half, Zero, One), Colour(One, One, Zero))

\* the ray of the scene tests (scene.rs:337)
RayUp == Ray_new(P3(0, 0, -1), P3(0, 0, 1))
\* a ray from above, built from a direction that is not unit length
RayDown == Ray_new(P3(0, 0, 2), P3(0, 0, -2))
\* a ray that meets the planes z = k far from the triangles
RayMiss == Ray_new(P3(0, 5, -1), P3(0, 0, 1))
\* a ray parallel to the planes z = k (triangle.rs:204)
RayFlat == Ray_new(P3(-1, 0, 0), P3(1, 0, 0))
\* a ray along the diagonal
RayDiag == Ray_new(P3(-1, -1, -1), P3(1, 1, 1))

----------------------------------------------------------------------------
(* Bounds.                                                                 *)

\* most triangles added to a Scene
MaxTriangles == 2
\* most primitives added to a PrimitivesWithMaterials queried on its own
MaxPrimitives == 3
\* largest recursion_depth and beam_rays_count given to Scene::new
MaxDepth == 2
MaxBeam == 2
\* most trace_until calls one trace may need: 1 + b + ... + b^d
MaxCalls == 5

RECURSIVE TreeSize(_, _)
TreeSize(d, b) == IF d = 0 THEN 1 ELSE 1 + b * TreeSize(d - 1, b)

\* the <<recursion_depth, beam_rays_count>> pairs given to Scene::new
Configs == {c \in (0 .. MaxDepth) \X (0 .. MaxBeam) : TreeSize(c[1], c[2]) <= MaxCalls}

\* what add_triangle is called with, and the rays that are traced
SceneArgs == {<<TriA, Yellow>>, <<TriA, Red>>, <<TriB, Lamp>>}
SceneDefaults == {White, Dusk}
SceneRays == {RayUp, RayDown, RayMiss}

\* what PrimitivesWithMaterials::add and closest_hit are called with
HitArgs == {<<TriA, Yellow>>, <<TriA, Red>>, <<TriB, Lamp>>, <<TriC, Red>>,
            <<TriTilt, Yellow>>, <<TriDeg, Lamp>>, <<Lost, Lamp>>}
HitRays == {RayUp, RayDown, RayMiss, RayFlat, RayDiag}

----------------------------------------------------------------------------
(* State.                                                                  *)

VARIABLES
    default_material,   \* Scene.default_material
    recursion_depth,    \* Scene.recursion_depth
    beam_rays_count,    \* Scene.beam_rays_count
    triangles,          \* Scene.triangles: PrimitivesWithMaterials<Triangle>
    stack,              \* the trace_until calls in progress, outermost first
    result,             \* what the last trace call returned: Option<Colour>
    traced,             \* the ray the last trace call was given: Option<Ray>
    calls,              \* trace_until calls made by the last trace call
    path,               \* the hit indices along the last chain of calls
    earlier,            \* the trace that returned last, where such are kept
    adds,               \* the <<primitive, material>> of every add so far
    query,              \* the last closest_hit call: Option<[ray, hit]>
    tri,                \* a Triangle on its own
    shot,               \* the last intersects call on tri: Option<[ray, out]>
    moved,              \* the last transform * tri: Option<[by, of, out]>
    lone,               \* a Ray on its own: Option<Ray>
    lone_norm,          \* the squared length of lone.direction: Option<Scalar>
    colour,             \* a Colour on its own: Option<Colour>
    source,             \* the Rgb<u8> that colour was converted from, if any
    clamp,              \* the last colour.clamped(): Option<outcome>
    pixel,              \* the last colour.into(): Option<outcome>
    viewport,           \* a Viewport: Option<Viewport>
    cast                \* the cast_ray calls so far: Option<Seq([at, rays])>

vars == <<default_material, recursion_depth, beam_rays_count, triangles, stack,
          result, traced, calls, path, earlier, adds, query, tri, shot, moved,
          lone,
          lone_norm, colour, source, clamp, pixel, viewport, cast>>

scene_vars == <<default_material, recursion_depth, beam_rays_count>>
trace_vars == <<stack, result, traced, calls, path, earlier>>
tri_vars == <<tri, shot>>
ray_vars == <<lone, lone_norm>>
colour_vars == <<colour, source, clamp, pixel>>
viewport_vars == <<viewport, cast>>
\* what the Scene, PrimitivesWithMaterials and intersects actions leave alone
free_vars == <<moved, ray_vars, colour_vars, viewport_vars>>
\* what the Triangle, Ray, Colour and Viewport actions leave alone
held_vars == <<scene_vars, trace_vars, triangles, adds, query>>

\* no transformed Triangle, Ray, Colour or Viewport is under consideration
FreeIdle ==
    /\ moved = None
    /\ lone = None
    /\ lone_norm = None
    /\ colour = None
    /\ source = None
    /\ clamp = None
    /\ pixel = None
    /\ viewport = None
    /\ cast = None

----------------------------------------------------------------------------
(* Scene.                                                                  *)

\* Scene::closest_hit
Scene_closest_hit(ray) == closest_hit(triangles, ray)

\* a faulty test that recurses once more
may_recurse_once_more(step) == step <= recursion_depth

\* the test of trace_until that decides between recursing and stopping
may_recurse(step) == step < recursion_depth

\* One call trace_until(ray, step), run up to its first recursive call or
\* to its return.  pc = "ret": the call returns trace_result.  pc = "loop":
\* the call is in its loop over the beam, has made k of the recursive calls
\* and holds their light in trace_result.  path is the index of the hit
\* primitive (-1 for a miss) followed by the path of the last call made
\* from here.  beam and lights record the rays the beam has yielded and the
\* results the recursive calls have returned, draws what get_beam has drawn
\* in this call and in the calls made from it: each vector v and what the
\* ray it gives meets.
Call(ray, step, pc, hit, trace_result, hits) ==
    [ray |-> ray, step |-> step, pc |-> pc, hit |-> hit, k |-> 0,
     trace_result |-> trace_result, path |-> hits,
     beam |-> <<>>, lights |-> <<>>, draws |-> <<>>]

\* a faulty trace_until that answers a miss with what the last trace returned
trace_until_hit_stale(ray, step, hit) ==
    IF hit = None
    THEN Call(ray, step, "ret", hit,
              IF result = None THEN TraceResult_from(default_material)
              ELSE [emission |-> unwrap(result), diffuse |-> unwrap(result)],
              <<-1>>)
    ELSE IF may_recurse(step)
         THEN Call(ray, step, "loop", hit, TraceResultDefault,
                   <<unwrap(hit).index>>)
         ELSE Call(ray, step, "ret", hit,
                   apply_to(TraceResult_from(default_material),
                            get_material(triangles, unwrap(hit).index)),
                   <<unwrap(hit).index>>)

\* a faulty trace_until that takes no light from the default material when
\* the recursion is used up
trace_until_hit_dark(ray, step, hit) ==
    IF hit = None
    THEN Call(ray, step, "ret", hit, TraceResult_from(default_material), <<-1>>)
    ELSE IF may_recurse(step)
         THEN Call(ray, step, "loop", hit, TraceResultDefault,
                   <<unwrap(hit).index>>)
         ELSE Call(ray, step, "ret", hit,
                   apply_to(TraceResultDefault,
                            get_material(triangles, unwrap(hit).index)),
                   <<unwrap(hit).index>>)

\* Scene::trace_until(ray, step) after let hit = self.closest_hit(ray)
trace_until_hit(ray, step, hit) ==
    IF hit = None
    THEN Call(ray, step, "ret", hit, TraceResult_from(default_material), <<-1>>)
    ELSE IF may_recurse(step)
         THEN Call(ray, step, "loop", hit, TraceResultDefault,
                   <<unwrap(hit).index>>)
         ELSE Call(ray, step, "ret", hit,
                   apply_to(TraceResult_from(default_material),
                            get_material(triangles, unwrap(hit).index)),
                   <<unwrap(hit).index>>)

trace_until(ray, step) == trace_until_hit(ray, step, Scene_closest_hit(ray))

\* the vectors rotation * circle_vec of get_beam that the model draws: none,
\* and one of length 0.001 across a direction along z
Jitters == {Vec(0, 0, 0, 1), Vec(1, 0, 0, 1000)}

\* a faulty item of the beam that starts at the hit point itself
get_beam_ray_at_hit(ray, v) ==
    Ray_new(ray.origin.point, VAdd(into_inner(ray.direction), v))

\* One item of Scene::get_beam(ray, primitive_size), v being the rotated
\* circle_vec of its two thread_rng draws:
\*     Ray::new(ray.origin, ray.direction.into_inner() + v)
get_beam_ray(ray, v) == Ray_new(ray.origin, VAdd(into_inner(ray.direction), v))

\* What the rays of the beam meet.  The origin hit.point + 2 * EPSILON *
\* direction and the jittered direction are f32 values that the rational
\* points of the model cannot intersect with the primitives, and the draws
\* are random: a ray of the beam meets the primitives as any of the rays
\* that are traced does.
get_beam(ray, hit) == SceneRays

Top == stack[Len(stack)]

\* Scene::new(default_material, recursion_depth, beam_rays_count)
Scene_new(material, depth, beam) ==
    /\ default_material = material
    /\ recursion_depth = depth
    /\ beam_rays_count = beam
    /\ triangles = PrimitivesWithMaterials_new

\* no trace call has been made
Untraced ==
    /\ stack = <<>>
    /\ result = None
    /\ traced = None
    /\ calls = 0
    /\ path = <<>>

\* ... and the traces that return are not kept
Idle ==
    /\ Untraced
    /\ earlier = None

\* What is kept of the returned traces where traces are kept: earlier is
\* None where they are not, else Some(<<>>) before the first return in the
\* scene and then Some(<<[ray, draws, colour]>>) for one of the traces that
\* have returned, any of them: the one kept before or the one returning.
keep(kept, call) ==
    IF kept = None THEN {None}
    ELSE {kept, Some(<<[ray |-> call.ray, draws |-> call.draws,
                        colour |-> call.trace_result.diffuse]>>)} \ {Some(<<>>)}

\* the draws of a call are recorded where traces are kept
drawn(kept, draws, draw) == IF kept = None THEN draws ELSE Append(draws, draw)

\* a changed scene has no returned trace
forget(kept) == IF kept = None THEN None ELSE Some(<<>>)

Init ==
    /\ \E material \in SceneDefaults, c \in Configs :
           Scene_new(material, c[1], c[2])
    /\ Idle
    /\ adds = <<>>
    /\ query = None
    /\ tri = TriA
    /\ shot = None
    /\ FreeIdle

\* Scene::add_triangle(triangle, material), between two trace calls
add_triangle ==
    /\ stack = <<>>
    /\ Len(triangles.primitives) < MaxTriangles
    /\ \E a \in SceneArgs :
           /\ triangles' = add(triangles, a[1], a[2])
           /\ adds' = Append(adds, a)
    /\ result' = None
    /\ traced' = None
    /\ calls' = 0
    /\ path' = <<>>
    /\ earlier' = forget(earlier)
    /\ UNCHANGED <<scene_vars, stack, query, tri_vars, free_vars>>

\* Scene::trace(ray): the call trace_until(ray, 0)
trace ==
    /\ stack = <<>>
    /\ \E ray \in SceneRays :
           /\ stack' = <<trace_until(ray, 0)>>
           /\ traced' = Some(ray)
    /\ result' = None
    /\ calls' = 1
    /\ path' = <<>>
    /\ UNCHANGED <<scene_vars, triangles, adds, query, tri_vars, free_vars, earlier>>

\* the next item of the beam and the recursive call on it
beam_call ==
    /\ stack # <<>>
    /\ Top.pc = "loop"
    /\ Top.k < beam_rays_count
    /\ \E beam_ray \in get_beam(Top.ray, unwrap(Top.hit)), v \in Jitters :
           stack' = Append([stack EXCEPT
                               ![Len(stack)].beam =
                                   Append(@, get_beam_ray(get_reflected_ray(triangles, Top.ray,
                                                                            unwrap(Top.hit)), v)),
                               ![Len(stack)].draws = drawn(earlier, @, <<v, beam_ray>>)],
                           trace_until(beam_ray, Top.step + 1))
    /\ calls' = calls + 1
    /\ UNCHANGED <<scene_vars, triangles, adds, query, tri_vars, free_vars, result,
                   traced, path, earlier>>

\* a recursive call returns tr: trace_result.add_light(&tr)
beam_return ==
    /\ Len(stack) >= 2
    /\ Top.pc = "ret"
    /\ LET n == Len(stack)
           caller == stack[n - 1]
       IN  stack' = [SubSeq(stack, 1, n - 1) EXCEPT ![n - 1] =
                        [caller EXCEPT
                            !.trace_result = add_light(caller.trace_result,
                                                       Top.trace_result),
                            !.k = caller.k + 1,
                            !.lights = Append(caller.lights, Top.trace_result),
                            !.draws = caller.draws \o Top.draws,
                            !.path = <<unwrap(caller.hit).index>> \o Top.path]]
    /\ UNCHANGED <<scene_vars, triangles, adds, query, tri_vars, free_vars, result,
                   traced, calls, path, earlier>>

\* the beam is used up: trace_result.emission /= beam_rays_count, then
\* trace_result.apply_to(material)
beam_end ==
    /\ stack # <<>>
    /\ Top.pc = "loop"
    /\ Top.k = beam_rays_count
    /\ LET n == Len(stack)
           material == get_material(triangles, unwrap(Top.hit).index)
           averaged == [Top.trace_result EXCEPT
                           !.emission = ColourDivScalar(Top.trace_result.emission,
                                                        QInt(beam_rays_count))]
       IN  stack' = [stack EXCEPT ![n] =
                        [Top EXCEPT !.pc = "ret",
                                    !.trace_result = apply_to(averaged, material)]]
    /\ UNCHANGED <<scene_vars, triangles, adds, query, tri_vars, free_vars, result,
                   traced, calls, path, earlier>>

\* a faulty return of trace that drops the triangles it has traced
trace_return_clearing ==
    /\ Len(stack) = 1
    /\ Top.pc = "ret"
    /\ result' = Some(Top.trace_result.diffuse)
    /\ path' = Top.path
    /\ stack' = <<>>
    /\ triangles' = PrimitivesWithMaterials_new
    /\ earlier' \in keep(earlier, Top)
    /\ UNCHANGED <<scene_vars, adds, query, tri_vars, free_vars, traced, calls>>

\* trace_until(ray, 0) returns to trace, which returns its diffuse field
trace_return ==
    /\ Len(stack) = 1
    /\ Top.pc = "ret"
    /\ result' = Some(Top.trace_result.diffuse)
    /\ path' = Top.path
    /\ stack' = <<>>
    /\ earlier' \in keep(earlier, Top)
    /\ UNCHANGED <<scene_vars, triangles, adds, query, tri_vars, free_vars,
                   traced, calls>>

Next ==
    \/ add_triangle
    \/ trace
    \/ beam_call
    \/ beam_return
    \/ beam_end
    \/ trace_return

Spec == Init /\ [][Next]_vars

----------------------------------------------------------------------------
(* A Scene whose returned traces are kept, to compare a trace with one     *)
(* that returned before it.                                                *)

\* the <<recursion_depth, beam_rays_count>> pairs of these scenes
OrderConfigs == {<<0, 1>>, <<1, 0>>, <<1, 1>>}

\* their default materials: each emission with each diffuse colour
OrderDefaults ==
    {Material(e.emission, d.diffuse) : e \in SceneDefaults, d \in SceneDefaults}

OrderInit ==
    /\ \E material \in OrderDefaults, c \in OrderConfigs :
           Scene_new(material, c[1], c[2])
    /\ Untraced
    /\ earlier = Some(<<>>)
    /\ adds = <<>>
    /\ query = None
    /\ tri = TriA
    /\ shot = None
    /\ FreeIdle

OrderSpec == OrderInit /\ [][Next]_vars

----------------------------------------------------------------------------
(* A PrimitivesWithMaterials on its own: new, add, closest_hit.            *)

HitInit ==
    /\ Scene_new(White, 0, 1)
    /\ Idle
    /\ adds = <<>>
    /\ query = None
    /\ tri = TriA
    /\ shot = None
    /\ FreeIdle

pwm_add ==
    /\ Len(triangles.primitives) < MaxPrimitives
    /\ \E a \in HitArgs :
           /\ triangles' = add(triangles, a[1], a[2])
           /\ adds' = Append(adds, a)
    /\ query' = None
    /\ UNCHANGED <<scene_vars, trace_vars, tri_vars, free_vars>>

pwm_closest_hit ==
    /\ \E ray \in HitRays :
           query' = Some([ray |-> ray, hit |-> closest_hit(triangles, ray)])
    /\ UNCHANGED <<scene_vars, trace_vars, tri_vars, free_vars, triangles, adds>>

HitNext == pwm_add \/ pwm_closest_hit

HitSpec == HitInit /\ [][HitNext]_vars

----------------------------------------------------------------------------
(* A Triangle on its own: new, intersects.                                 *)

TriSet == {TriA, TriB, TriC, TriUp, TriTilt, TriDeg}

\* the points a ray starts from and the points it is aimed at
Box == {P3(x, y, z) : x \in -1 .. 1, y \in -1 .. 1, z \in -1 .. 1}
Origins == Box \cup {P3(0, 0, 2), P3(0, 0, -2), P3(2, 2, 2)}
Targets == Box

TriInit ==
    /\ Scene_new(White, 0, 1)
    /\ Idle
    /\ adds = <<>>
    /\ query = None
    /\ tri \in TriSet
    /\ shot = None
    /\ FreeIdle

\* Triangle::new(vertices, colour): another triangle
tri_new ==
    /\ shot # None
    /\ tri' \in TriSet
    /\ shot' = None
    /\ UNCHANGED <<held_vars, free_vars>>

\* tri.intersects(&Ray::new(origin, target - origin))
tri_intersects ==
    /\ shot = None
    /\ \E origin \in Origins, target \in Targets :
           LET ray == Ray_new(origin, VSub(target, origin))
           IN  shot' = Some([ray |-> ray, out |-> intersects(tri, ray)])
    /\ UNCHANGED <<held_vars, free_vars, tri>>

TriNext == tri_new \/ tri_intersects

TriSpec == TriInit /\ [][TriNext]_vars

----------------------------------------------------------------------------
(* A Triangle that is built, recoloured, edited and transformed.           *)

Rgb1 == <<0, 125, 255>>

\* the quarter turns about z and about x
TurnZ == <<<<0, -1, 0>>, <<1, 0, 0>>, <<0, 0, 1>>>>
TurnX == <<<<1, 0, 0>>, <<0, 0, -1>>, <<0, 1, 0>>>>
\* a stretch along x, and the projection onto the plane z = 0
StretchX == <<<<2, 0, 0>>, <<0, 1, 0>>, <<0, 0, 1>>>>
DropZ == <<<<1, 0, 0>>, <<0, 1, 0>>, <<0, 0, 0>>>>

\* one transform of each kind, and a second Matrix3 and Matrix4
Transforms ==
    {Matrix3(StretchX), Matrix3(DropZ), Rotation3(TurnZ),
     Translation3(P3(1, 0, 0)), Isometry3(P3(0, 0, 1), TurnX),
     Similarity3(P3(0, 1, 0), TurnZ, 2),
     Transform3(Identity3, NoVector, NoVector, 2),
     Matrix4(TurnX, P3(0, -1, 0), NoVector, 1),
     Matrix4(Identity3, NoVector, P3(0, 0, 1), 1)}

\* the vertices of the triangles that are edited and transformed further
ShapePoints ==
    {P3(0, 0, 0), P3(1, 0, 0), P3(-1, 0, 0), P3(0, 1, 0), P3(0, -1, 0),
     P3(0, 0, 1), P3(0, 0, -1)}

ShapeInit ==
    /\ Scene_new(White, 0, 1)
    /\ Idle
    /\ adds = <<>>
    /\ query = None
    /\ tri = Triangle_new(<<P3(1, 0, 0), P3(0, 1, 0), P3(0, 0, 1)>>, Rgb0)
    /\ shot = None
    /\ FreeIdle

\* tri = Triangle::new_triangle_colour(&tri, colour); the triangle that was
\* made from the old tri is dropped
shape_new_triangle_colour ==
    /\ \E c \in {Rgb0, Rgb1} : tri' = new_triangle_colour(tri, c)
    /\ moved' = None
    /\ UNCHANGED <<held_vars, shot, ray_vars, colour_vars, viewport_vars>>

\* tri.set_v(index, value)
shape_set_v ==
    /\ \E index \in 0 .. 2, value \in ShapePoints :
           tri' = set_v(tri, index, value)
    /\ moved' = None
    /\ UNCHANGED <<held_vars, shot, ray_vars, colour_vars, viewport_vars>>

\* let out = a * &tri
shape_mul ==
    /\ \E a \in Transforms :
           moved' = Some([by |-> a, of |-> tri, out |-> Triangle_mul(a, tri)])
    /\ UNCHANGED <<held_vars, tri, shot, ray_vars, colour_vars,
                   viewport_vars>>

\* tri = out: the transformed triangle is the one worked on from now on
shape_take ==
    /\ moved # None
    /\ \A i \in 1 .. 3 : unwrap(moved).out.vertices[i] \in ShapePoints
    /\ tri' = unwrap(moved).out
    /\ moved' = None
    /\ UNCHANGED <<held_vars, shot, ray_vars, colour_vars, viewport_vars>>

ShapeNext ==
    \/ shape_new_triangle_colour
    \/ shape_set_v
    \/ shape_mul
    \/ shape_take

ShapeSpec == ShapeInit /\ [][ShapeNext]_vars

----------------------------------------------------------------------------
(* A Ray that is built and transformed.                                    *)

\* largest entry of the direction that Ray::new and the transforms are
\* followed to
MaxCoord == 2

\* what Ray::new is called with: origins, and directions that are not
\* normalised, the zero vector among them
RayOrigins == {P3(0, 0, 0), P3(1, 0, 0), P3(0, 0, -1)}
RayDirections ==
    {P3(0, 0, 0), P3(0, 0, 2), P3(1, 0, 0), P3(1, 1, 0), P3(0, -1, 1),
     P3(1, 2, 2)}

\* the rays that are transformed further
RayKept(r) ==
    /\ r.origin \in ShapePoints
    /\ \A i \in 1 .. 3 : Abs(r.direction[i]) <= MaxCoord

RayNew == [kind |-> "new"]

\* lone is [by, of, out]: the ray out was made by Ray::new(of.origin,
\* of.direction) (by = RayNew) or by the product by * of
RayInit ==
    /\ Scene_new(White, 0, 1)
    /\ Idle
    /\ adds = <<>>
    /\ query = None
    /\ tri = TriA
    /\ shot = None
    /\ moved = None
    /\ \E o \in RayOrigins, d \in RayDirections :
           /\ lone = [by |-> RayNew, of |-> [origin |-> o, direction |-> d],
                      of_norm |-> None, out |-> Ray_new(o, d)]
           /\ lone_norm = norm_squared_normalized(d)
    /\ colour = None
    /\ source = None
    /\ clamp = None
    /\ pixel = None
    /\ viewport = None
    /\ cast = None

\* Ray::new(origin, direction)
ray_new ==
    /\ \E o \in RayOrigins, d \in RayDirections :
           /\ lone' = [by |-> RayNew, of |-> [origin |-> o, direction |-> d],
                       of_norm |-> None, out |-> Ray_new(o, d)]
           /\ lone_norm' = norm_squared_normalized(d)
    /\ UNCHANGED <<held_vars, tri_vars, moved, colour_vars, viewport_vars>>

\* a * lone.out
ray_mul ==
    /\ \E a \in Transforms :
           /\ RayKept(Ray_mul(a, lone.out))
           /\ lone' = [by |-> a, of |-> lone.out, of_norm |-> lone_norm,
                       out |-> Ray_mul(a, lone.out)]
           /\ lone_norm' = Ray_mul_norm(a, lone.out, lone_norm)
    /\ UNCHANGED <<held_vars, tri_vars, moved, colour_vars, viewport_vars>>

RayNext == ray_new \/ ray_mul

RaySpec == RayInit /\ [][RayNext]_vars

----------------------------------------------------------------------------
(* A Colour that is built, converted from Rgb<u8>, clamped and converted   *)
(* to Rgb<u8>.                                                             *)

\* the channels of the colours that are built directly: 0, 1/4, 1/2, 1,
\* values above 1, a negative value, NaN, and 261/255 and 325/255, which
\* f32 holds rounded
ColourChannels ==
    {F32Zero, F32Of(1, 4), F32Of(1, 2), F32One, F32FromInt(3), F32FromInt(5),
     F32FromInt(-1), F32NaN, F32Of(261, 255), F32Of(325, 255)}

ColourInputs ==
    {Colour(r, g, b) : r \in ColourChannels, g \in ColourChannels,
                       b \in ColourChannels}

\* the Rgb<u8> values that are converted: every byte, in each channel
RgbInputs == {<<r, 255 - r, (r + 128) % 256>> : r \in 0 .. 255}

\* the colour at hand has been clamped and converted
ColourUsed == clamp # None /\ pixel # None

\* Colour { red, green, blue }
ColourInit ==
    /\ Scene_new(White, 0, 1)
    /\ Idle
    /\ adds = <<>>
    /\ query = None
    /\ tri = TriA
    /\ shot = None
    /\ moved = None
    /\ lone = None
    /\ lone_norm = None
    /\ colour \in ColourInputs
    /\ source = None
    /\ clamp = None
    /\ pixel = None
    /\ viewport = None
    /\ cast = None

\* Colour::from(cl)
colour_from ==
    /\ ColourUsed
    /\ \E cl \in RgbInputs :
           /\ colour' = Colour_from(cl)
           /\ source' = Some(cl)
    /\ clamp' = None
    /\ pixel' = None
    /\ UNCHANGED <<held_vars, tri_vars, moved, ray_vars, viewport_vars>>

\* colour.clamped()
colour_clamped ==
    /\ clamp = None
    /\ clamp' = Some(clamped(colour))
    /\ UNCHANGED <<held_vars, tri_vars, moved, ray_vars, viewport_vars,
                   colour, source, pixel>>

\* colour.into()
colour_into ==
    /\ pixel = None
    /\ pixel' = Some(Colour_into(colour))
    /\ UNCHANGED <<held_vars, tri_vars, moved, ray_vars, viewport_vars,
                   colour, source, clamp>>

ColourNext ==
    \/ colour_from
    \/ colour_clamped
    \/ colour_into

ColourSpec == ColourInit /\ [][ColourNext]_vars

----------------------------------------------------------------------------
(* A Viewport that is built and casts rays through screen points.          *)

MaxRays == 3
\* most cast_ray calls on one Viewport
MaxCasts == 3

\* width and height
Sizes == {<<4, 2>>, <<2, 2>>}
\* tan(fovy / 2)
TanHalves == {One, Half}
\* znear and zfar; with both equal the projection has no inverse
Depths == {<<One, QInt(100)>>, <<One, One>>}
\* what OpenSimplex may give at pt
NoiseValues == {Zero, Half, QNeg(Half)}
ScreenPoints == {<<0, 0>>, <<2, 1>>, <<4, 2>>}

\* a Viewport with the point_rays_count it was asked for
Viewports ==
    {[point_rays_count |-> n,
      out |-> Viewport_new(size[1], size[2], t, depth[1], depth[2],
                           OpenSimplex_new(at_pt), n)] :
        n \in 0 .. MaxRays, size \in Sizes, t \in TanHalves,
        depth \in Depths, at_pt \in NoiseValues}

ViewportInit ==
    /\ Scene_new(White, 0, 1)
    /\ Idle
    /\ adds = <<>>
    /\ query = None
    /\ tri = TriA
    /\ shot = None
    /\ moved = None
    /\ lone = None
    /\ lone_norm = None
    /\ colour = None
    /\ source = None
    /\ clamp = None
    /\ pixel = None
    /\ viewport \in Viewports
    /\ cast = None

\* Viewport::new(width, height, fovy, znear, zfar, point_rays_count)
viewport_new ==
    /\ viewport' \in Viewports
    /\ cast' = None
    /\ UNCHANGED <<held_vars, tri_vars, moved, ray_vars, colour_vars>>

\* the cast_ray calls made on the Viewport so far, the first one first
Casts == IF cast = None THEN <<>> ELSE unwrap(cast)

\* viewport.cast_ray(screen_point).collect()
viewport_cast_ray ==
    /\ Len(Casts) < MaxCasts
    /\ \E screen_point \in ScreenPoints :
           cast' = Some(Append(Casts,
                               [at |-> screen_point,
                                rays |-> cast_ray(viewport.out, screen_point)]))
    /\ viewport' = [viewport EXCEPT
                        !.out.point_offsets = point_offsets_iterated(viewport.out)]
    /\ UNCHANGED <<held_vars, tri_vars, moved, ray_vars, colour_vars>>

ViewportNext == viewport_new \/ viewport_cast_ray

ViewportSpec == ViewportInit /\ [][ViewportNext]_vars

----------------------------------------------------------------------------
(* A hit of a Scene's triangles and the ray reflected at it.               *)

\* the triangles of the Scene
ReflectArgs == {<<TriA, Yellow>>, <<TriB, Lamp>>, <<TriC, Red>>, <<TriTilt, Yellow>>}

\* rays whose directions have the lengths 1, 5 and 3
ReflectOrigins == {P3(0, 0, -1), P3(0, 0, 2), P3(0, 0, 0), Vec(0, -3, -4, 8)}
ReflectDirections ==
    {P3(0, 0, 1), P3(0, 0, -1), P3(0, 3, 4), P3(0, 3, -4), P3(1, 2, 2)}

ReflectInit ==
    /\ Scene_new(White, 1, 1)
    /\ adds = <<>>
    /\ Idle
    /\ query = None
    /\ tri = TriA
    /\ shot = None
    /\ FreeIdle

\* Scene::add_triangle(triangle, material)
reflect_add_triangle ==
    /\ Len(triangles.primitives) < MaxTriangles
    /\ \E a \in ReflectArgs :
           /\ triangles' = add(triangles, a[1], a[2])
           /\ adds' = Append(adds, a)
    /\ query' = None
    /\ UNCHANGED <<scene_vars, trace_vars, tri_vars, free_vars>>

\* let hit = self.closest_hit(ray), and for a hit
\* self.get_reflected_ray(&ray, &hit)
reflect_hit(ray, hit) ==
    IF hit = None THEN None
    ELSE Some([ray |-> ray, hit |-> hit,
               reflected_ray |-> get_reflected_ray(triangles, ray, unwrap(hit))])

reflect_ray ==
    /\ \E o \in ReflectOrigins, d \in ReflectDirections :
           query' = reflect_hit(Ray_new(o, d), closest_hit(triangles, Ray_new(o, d)))
    /\ UNCHANGED <<scene_vars, trace_vars, tri_vars, free_vars, triangles, adds>>

ReflectNext == reflect_add_triangle \/ reflect_ray

ReflectSpec == ReflectInit /\ [][ReflectNext]_vars

----------------------------------------------------------------------------
(* Properties of closest_hit (checked under HitSpec).                      *)

Indices == 0 .. Len(triangles.primitives) - 1

\* primitive i is hit by the ray, at a distance that is not NaN
Hits(i, ray) ==
    LET o == RayTraceable_intersects(get_primitive(triangles, i), ray)
    IN  o # None /\ ~QIsNaN(distance(unwrap(o), ray.origin))

HitDistance(i, ray) ==
    distance(unwrap(RayTraceable_intersects(get_primitive(triangles, i), ray)),
             ray.origin)

\* C1: when some primitive is hit at a non-NaN distance, closest_hit
\* returns Some(HitResult) whose index is the index of an added primitive,
\* whose point is that primitive's intersects(ray), and whose distance from
\* the ray origin is at most the distance of every other primitive's hit.
C1_ClosestHitIsNearest ==
    query # None =>
        LET ray == unwrap(query).ray
            hit == unwrap(query).hit
        IN  (\E i \in Indices : Hits(i, ray)) =>
                /\ hit # None
                /\ unwrap(hit).index \in Indices
                /\ Some(unwrap(hit).point) =
                       RayTraceable_intersects(
                           get_primitive(triangles, unwrap(hit).index), ray)
                /\ \A j \in Indices :
                       Hits(j, ray) =>
                           ~QLt(HitDistance(j, ray),
                                distance(unwrap(hit).point, ray.origin))

\* three primitives are hit at different distances and the nearest is the
\* last of them
C1_Witness ==
    /\ query # None
    /\ unwrap(query).hit # None
    /\ unwrap(unwrap(query).hit).index = 2
    /\ \A i \in {0, 1} : /\ Hits(i, unwrap(query).ray)
                         /\ QLt(HitDistance(2, unwrap(query).ray),
                                HitDistance(i, unwrap(query).ray))

\* C2: closest_hit returns None when no added primitive intersects the ray
\* (an empty collection, or every intersects(ray) is None), and returns
\* Some whenever some primitive is hit at a non-NaN distance.
C2_NoneExactlyOnMiss ==
    query # None =>
        LET ray == unwrap(query).ray
            hit == unwrap(query).hit
        IN  /\ (\A i \in Indices :
                   RayTraceable_intersects(get_primitive(triangles, i), ray) = None)
                   => hit = None
            /\ (\E i \in Indices : Hits(i, ray)) => hit # None

\* a collection of two primitives that the ray both misses, and a
\* collection whose only hit is at distance zero
C2_WitnessMiss ==
    /\ query # None
    /\ Len(triangles.primitives) = 2
    /\ unwrap(query).hit = None

C2_WitnessHitAtZero ==
    /\ query # None
    /\ Len(triangles.primitives) = 2
    /\ unwrap(query).hit # None
    /\ ~Hits(0, unwrap(query).ray)
    /\ Hits(1, unwrap(query).ray)
    /\ HitDistance(1, unwrap(query).ray) = Zero

\* C3: of the primitives hit at the same minimal distance closest_hit
\* returns the one added first: no primitive with a smaller index is hit at
\* the distance of the returned one.
C3_FirstOfEqualWins ==
    query # None =>
        LET ray == unwrap(query).ray
            hit == unwrap(query).hit
        IN  hit # None =>
                \A j \in Indices :
                    (Hits(j, ray) /\ j < unwrap(hit).index) =>
                        HitDistance(j, ray) # distance(unwrap(hit).point, ray.origin)

\* two primitives are hit at the same minimal distance, a third one farther
\* away, and the first of the two is returned
C3_Witness ==
    /\ query # None
    /\ unwrap(query).hit # None
    /\ unwrap(unwrap(query).hit).index = 1
    /\ Len(triangles.primitives) = 3
    /\ \A i \in Indices : Hits(i, unwrap(query).ray)
    /\ HitDistance(1, unwrap(query).ray) = HitDistance(2, unwrap(query).ray)
    /\ QLt(HitDistance(1, unwrap(query).ray), HitDistance(0, unwrap(query).ray))

----------------------------------------------------------------------------
(* Properties of the collection of a Scene (checked under Spec).           *)

\* C4: in every reachable state the number of stored primitives equals the
\* number of stored materials, and both equal the number of add calls made
\* so far.
C4_ParallelLengths ==
    /\ Len(triangles.primitives) = Len(triangles.materials)
    /\ Len(triangles.primitives) = Len(adds)

\* two triangles have been added
C4_Witness == Len(adds) = 2 /\ Len(triangles.primitives) = 2

\* C5: the collection is append-only with stable indices: in every state
\* reached after the k-th add(p, m) (counting from 0), whatever adds and
\* traces followed it, get_primitive(k) is p and get_material(k) is m.
C5_AppendOnly ==
    \A k \in 0 .. Len(adds) - 1 :
        /\ k < Len(triangles.primitives)
        /\ k < Len(triangles.materials)
        /\ get_primitive(triangles, k) = adds[k + 1][1]
        /\ get_material(triangles, k) = adds[k + 1][2]

\* two different entries were added, and a trace has run since
C5_Witness ==
    /\ Len(adds) = 2
    /\ adds[1] # adds[2]
    /\ result # None
    /\ get_primitive(triangles, 0) = adds[1][1]
    /\ get_material(triangles, 1) = adds[2][2]

----------------------------------------------------------------------------
(* Properties of the tracer (checked under Spec).                          *)

\* every trace_until call in progress has a step of at most
\* recursion_depth, the steps along the stack are 0, 1, 2, ..., and a call
\* at step recursion_depth is not in the loop that makes recursive calls
StepBound ==
    \A i \in 1 .. Len(stack) :
        /\ stack[i].step = i - 1
        /\ stack[i].step <= recursion_depth
        /\ stack[i].step = recursion_depth => stack[i].pc = "ret"

\* the most steps a call of trace_until at this step takes from its
\* start to its return: one when it cannot recurse, else for each beam ray
\* the call and what the call takes, then the end of the loop and the
\* return
RECURSIVE CallCost(_)
CallCost(step) ==
    IF step >= recursion_depth THEN 1
    ELSE beam_rays_count * (1 + CallCost(step + 1)) + 2

\* the steps the call in stack[i] still has to take itself and in the calls
\* it has yet to make (the call in progress above it counts for itself)
FrameCost(i) ==
    LET f == stack[i]
        made == IF i < Len(stack) THEN f.k + 1 ELSE f.k
    IN  IF f.pc = "ret" THEN 1
        ELSE (beam_rays_count - made) * (1 + CallCost(f.step + 1)) + 2

RECURSIVE CostFrom(_)
CostFrom(i) == IF i > Len(stack) THEN 0 ELSE FrameCost(i) + CostFrom(i + 1)

\* the steps the trace call in progress still has to take, at most
Cost == CostFrom(1)

RECURSIVE CostFromNext(_)
CostFromNext(i) ==
    IF i > Len(stack') THEN 0
    ELSE LET f == stack'[i]
             made == IF i < Len(stack') THEN f.k + 1 ELSE f.k
         IN  (IF f.pc = "ret" THEN 1
              ELSE (beam_rays_count - made) * (1 + CallCost(f.step + 1)) + 2)
             + CostFromNext(i + 1)

\* a trace call in progress can always take a step
CanStep ==
    stack # <<>> =>
        \/ Top.pc = "ret"
        \/ Top.pc = "loop" /\ Top.k < beam_rays_count
                           /\ get_beam(Top.ray, unwrap(Top.hit)) # {}
        \/ Top.pc = "loop" /\ Top.k = beam_rays_count

\* C6: every call of trace terminates (a call in progress can always take
\* a step, and each step lowers Cost, a natural number), trace_until is
\* never called with a step greater than recursion_depth, and a hit at
\* step recursion_depth makes no further recursive call.
C6_BoundedRecursion ==
    /\ [](StepBound /\ CanStep /\ Cost >= 0)
    /\ [][stack # <<>> => CostFromNext(1) < Cost]_vars

\* a call at step recursion_depth = 2 hit a primitive and returns
C6_Witness ==
    /\ stack # <<>>
    /\ recursion_depth = 2
    /\ Top.step = recursion_depth
    /\ Top.hit # None
    /\ Top.pc = "ret"

\* the last trace call has returned and its primary ray hit nothing / hit
\* the primitive with this index
Returned == result # None /\ traced # None
PrimaryHit == Scene_closest_hit(unwrap(traced))

\* C7: if the primary ray hits no primitive, trace returns exactly the
\* default material's diffuse colour, for every recursion_depth and
\* beam_rays_count, and makes no call of trace_until but the first.
C7_MissYieldsDefaultDiffuse ==
    (Returned /\ PrimaryHit = None) =>
        /\ result = Some(default_material.diffuse)
        /\ calls = 1

\* a miss in a scene that holds triangles and would recurse on a hit
C7_Witness ==
    /\ Returned
    /\ PrimaryHit = None
    /\ Len(triangles.primitives) >= 1
    /\ recursion_depth >= 1
    /\ beam_rays_count >= 1

HitMaterial == get_material(triangles, unwrap(PrimaryHit).index)

\* C8 as claimed: with recursion_depth = 0, tracing a ray that hits a
\* triangle returns exactly the diffuse colour of that triangle's material,
\* whatever the emissions of the hit material and of the default material.
C8_Claimed_HitYieldsDiffuse ==
    (Returned /\ recursion_depth = 0 /\ PrimaryHit # None) =>
        result = Some(HitMaterial.diffuse)

\* C8 as amended: with recursion_depth = 0, tracing a ray that hits a
\* triangle returns material.emission + material.diffuse *
\* default_material.emission for that triangle's material; this is the
\* material's diffuse colour when the material's emission is zero and the
\* default material's emission is white.
C8_HitYieldsLitMaterial ==
    (Returned /\ recursion_depth = 0 /\ PrimaryHit # None) =>
        /\ result = Some(ColourAdd(HitMaterial.emission,
                                   ColourMul(HitMaterial.diffuse,
                                             default_material.emission)))
        /\ (/\ HitMaterial.emission = ColourDefault
            /\ default_material.emission = Colour(One, One, One))
               => result = Some(HitMaterial.diffuse)

\* a hit, with recursion_depth = 0, of a material that emits light
C8_Witness ==
    /\ Returned
    /\ recursion_depth = 0
    /\ PrimaryHit # None
    /\ HitMaterial.emission # ColourDefault

\* emission + diffuse * incoming, for the material stored at an index
Lit(index, incoming) ==
    LET m == get_material(triangles, index)
    IN  ColourAdd(m.emission, ColourMul(m.diffuse, incoming))

\* C9: with beam_rays_count = 1 and recursion_depth = 2, if the primary ray
\* hits A and the ray traced from A hits nothing, trace returns
\* A.emission + A.diffuse * default.emission; if the ray traced from A hits
\* B and the ray traced from B hits nothing, trace returns
\* A.emission + A.diffuse * (B.emission + B.diffuse * default.emission).
C9_TwoBounces ==
    (Returned /\ beam_rays_count = 1 /\ recursion_depth = 2) =>
        /\ (Len(path) = 2 /\ path[1] >= 0 /\ path[2] = -1) =>
               result = Some(Lit(path[1], default_material.emission))
        /\ (Len(path) = 3 /\ path[1] >= 0 /\ path[2] >= 0 /\ path[3] = -1) =>
               result = Some(Lit(path[1], Lit(path[2], default_material.emission)))

\* the primary ray hit A, the next ray hit another primitive B, the third
\* ray hit nothing
C9_Witness ==
    /\ Returned
    /\ beam_rays_count = 1
    /\ recursion_depth = 2
    /\ Len(path) = 3
    /\ path[1] >= 0
    /\ path[2] >= 0
    /\ path[1] # path[2]
    /\ path[3] = -1

----------------------------------------------------------------------------
(* Properties of Triangle::intersects (checked under TriSpec).             *)

\* q lies in the plane of the triangle t
OnPlane(t, q) ==
    LET e1 == VSub(get_v(t, 1), get_v(t, 0))
        e2 == VSub(get_v(t, 2), get_v(t, 0))
    IN  VDot(VCross(e1, e2), VSub(q, get_v(t, 0))) = Zero

\* t has a non-zero area
NonDegenerate(t) ==
    LET e1 == VSub(get_v(t, 1), get_v(t, 0))
        e2 == VSub(get_v(t, 2), get_v(t, 0))
        c == VCross(e1, e2)
    IN  VDot(c, c) # Zero

\* q = v0 + u e1 + v e2 with u > 0, v > 0 and u + v < 1
StrictlyInside(t, q) ==
    LET e1 == VSub(get_v(t, 1), get_v(t, 0))
        e2 == VSub(get_v(t, 2), get_v(t, 0))
        c == VCross(e1, e2)
        w == VSub(q, get_v(t, 0))
        cc == VDot(c, c)
        u == QDiv(VDot(VCross(w, e2), c), cc)
        v == QDiv(VDot(VCross(e1, w), c), cc)
    IN  /\ NonDegenerate(t)
        /\ OnPlane(t, q)
        /\ QGt(u, Zero)
        /\ QGt(v, Zero)
        /\ QLt(QAdd(u, v), One)

\* C10: for every non-degenerate triangle, wherever its plane lies, and
\* every ray whose origin is off the plane and whose direction points from
\* the origin to a point q strictly inside the triangle, intersects returns
\* Some(q).
C10_Claimed_HitsAimedPoint ==
    shot # None =>
        \A q \in Targets :
            (/\ StrictlyInside(tri, q)
             /\ ~OnPlane(tri, unwrap(shot).ray.origin)
             /\ unwrap(shot).ray.direction =
                    new_normalize(VSub(q, unwrap(shot).ray.origin)))
                => unwrap(shot).out = Some(q)

----------------------------------------------------------------------------
(* Properties of the three rejections of Triangle::intersects (TriSpec).   *)

\* (v1 - v0) x (v2 - v0): a normal of the plane of t, not normalised
PlaneNormal(t) ==
    VCross(VSub(get_v(t, 1), get_v(t, 0)), VSub(get_v(t, 2), get_v(t, 0)))

\* the ray r is parallel to the plane of t
Parallel(t, r) == VDot(PlaneNormal(t), r.direction) = Zero

\* the parameter at which the line of r meets the plane of t, in units of
\* the representative of r.direction (same sign as the distance along r)
TrueParameter(t, r) ==
    QDiv(VDot(PlaneNormal(t), VSub(get_v(t, 0), r.origin)),
         VDot(PlaneNormal(t), r.direction))

\* the point at which the line of r meets the plane of t
TruePoint(t, r) == VAdd(r.origin, VScale(TrueParameter(t, r), r.direction))

\* q lies in the plane of t, inside t or on its edges
Within(t, q) ==
    LET e1 == VSub(get_v(t, 1), get_v(t, 0))
        e2 == VSub(get_v(t, 2), get_v(t, 0))
        c == VCross(e1, e2)
        w == VSub(q, get_v(t, 0))
        cc == VDot(c, c)
        u == QDiv(VDot(VCross(w, e2), c), cc)
        v == QDiv(VDot(VCross(e1, w), c), cc)
    IN  /\ NonDegenerate(t)
        /\ OnPlane(t, q)
        /\ ~QLt(u, Zero)
        /\ ~QLt(v, Zero)
        /\ ~QGt(QAdd(u, v), One)

C11_WitnessOffPlane ==
    /\ shot # None
    /\ NonDegenerate(tri)
    /\ ~VIsNaN(unwrap(shot).ray.direction)
    /\ Parallel(tri, unwrap(shot).ray)
    /\ ~OnPlane(tri, unwrap(shot).ray.origin)
    /\ unwrap(shot).out = None

\* C12: for every triangle and every ray whose line meets the triangle's
\* plane only at a point behind the ray origin (parameter t < 0),
\* intersects returns None.
C12_Claimed_BehindOriginMisses ==
    shot # None =>
        ((/\ NonDegenerate(tri)
          /\ ~VIsNaN(unwrap(shot).ray.direction)
          /\ ~Parallel(tri, unwrap(shot).ray)
          /\ QLt(TrueParameter(tri, unwrap(shot).ray), Zero))
            => unwrap(shot).out = None)

\* C13: for every triangle and every ray that meets the triangle's plane
\* at a point outside the triangle, intersects returns None; whenever
\* intersects returns Some(p), p lies on the triangle's plane and within
\* the triangle.
C13_Claimed_HitsLieInTriangle ==
    shot # None =>
        /\ (/\ NonDegenerate(tri)
            /\ ~VIsNaN(unwrap(shot).ray.direction)
            /\ ~Parallel(tri, unwrap(shot).ray)
            /\ ~QLt(TrueParameter(tri, unwrap(shot).ray), Zero)
            /\ ~Within(tri, TruePoint(tri, unwrap(shot).ray)))
               => unwrap(shot).out = None
        /\ unwrap(shot).out # None
               => Within(tri, unwrap(unwrap(shot).out))

----------------------------------------------------------------------------
(* The cached normal of a Triangle (checked under ShapeSpec).              *)

\* the normal stored in t is the one calculate_normal gives for the
\* vertices stored in t (for a triangle of zero area both are the NaN
\* vector that normalising the zero vector gives)
NormalIsCurrent(t) == t.normal = calculate_normal(t.vertices)

\* C14: after any sequence of new, new_triangle_colour, set_v and
\* transform applications the stored normal is calculate_normal of the
\* stored vertices, for the operand and for the transformed triangle, and
\* a transform application leaves its operand as it was.
C14_NormalFollowsVertices ==
    /\ [](/\ NormalIsCurrent(tri)
          /\ moved # None =>
                /\ NormalIsCurrent(unwrap(moved).out)
                /\ unwrap(moved).of = tri
                    => unwrap(moved).out = Triangle_mul(unwrap(moved).by, tri))
    /\ [][(moved' # None /\ moved' # moved) =>
              (tri' = tri /\ unwrap(moved').of = tri)]_vars

\* a triangle that was edited with set_v, then stretched along x by a
\* Matrix3, which turns its normal
C14_Witness ==
    /\ moved # None
    /\ unwrap(moved).by = Matrix3(StretchX)
    /\ tri # Triangle_new(<<P3(1, 0, 0), P3(0, 1, 0), P3(0, 0, 1)>>, Rgb0)
    /\ tri.colour = Rgb1
    /\ ~VIsNaN(tri.normal)
    /\ ~VIsNaN(unwrap(moved).out.normal)
    /\ unwrap(moved).out.normal # tri.normal

----------------------------------------------------------------------------
(* The length of a Ray's direction (checked under RaySpec).                *)

ZeroVector(v) == ~VIsNaN(v) /\ v[1] = 0 /\ v[2] = 0 /\ v[3] = 0

\* the transforms that map no vector but the zero vector to it
Invertible(a) ==
    a.kind \in {"Rotation3", "Translation3", "Isometry3", "Similarity3"}

C15_WitnessZeroDirection == lone.by = RayNew /\ lone_norm = NaN
C15_WitnessSingular ==
    /\ lone.by.kind = "Matrix3"
    /\ lone.by = Matrix3(DropZ)
    /\ lone.of_norm = One
    /\ lone_norm = NaN

----------------------------------------------------------------------------
(* Properties of Colour::clamped (checked under ColourSpec).               *)

Channels(c) == {c.red, c.green, c.blue}

\* the largest channel of a colour without NaN, by its meaning
Largest(c) ==
    CHOOSE x \in Channels(c) : \A y \in Channels(c) : ~F32Lt(x, y)

AtMostOne(x) == ~F32IsNaN(x) /\ ~F32Gt(x, F32One)
AtLeastZero(x) == ~F32IsNaN(x) /\ F32Sign(x) >= 0

\* the colour that colour.clamped() returned
Clamped == returned(unwrap(clamp))

ClampedTwice == clamped(Clamped) = unwrap(clamp)

C16_WitnessUnchanged ==
    /\ clamp # None
    /\ source # None
    /\ unwrap(source)[1] = 127
    /\ Clamped = colour

C16_WitnessPanic == clamp # None /\ HasNaN(colour) /\ unwrap(clamp) = Panic

\* the channels of c that are the largest are exactly 1 in d
LargestIsOne(c, d) ==
    /\ c.red = Largest(c) => d.red = F32One
    /\ c.green = Largest(c) => d.green = F32One
    /\ c.blue = Largest(c) => d.blue = F32One

\* d is c divided by the largest channel of c, when that exceeds 1
DividedByLargest(c, d) ==
    F32Gt(Largest(c), F32One) =>
        d = Colour_div(c, Largest(c)) /\ LargestIsOne(c, d)

\* C17 as claimed: for every Colour c without NaN, every channel of
\* c.clamped() lies between 0 and 1, and when the largest channel of c
\* exceeds 1 the result is c divided by it, the largest becoming 1.
C17_Claimed_ChannelsBetween0And1 ==
    (clamp # None /\ ~HasNaN(colour)) =>
        /\ unwrap(clamp) # Panic
        /\ \A x \in Channels(Clamped) : AtLeastZero(x) /\ AtMostOne(x)
        /\ DividedByLargest(colour, Clamped)

\* C17: for every Colour c without NaN, every channel of c.clamped() is at
\* most 1, and is at least 0 when the channel of c it comes from is; when
\* the largest channel of c exceeds 1 the result is c divided by it, the
\* largest becoming exactly 1.
C17_ChannelsAtMost1 ==
    (clamp # None /\ ~HasNaN(colour)) =>
        /\ unwrap(clamp) # Panic
        /\ \A x \in Channels(Clamped) : AtMostOne(x)
        /\ AtLeastZero(colour.red) => AtLeastZero(Clamped.red)
        /\ AtLeastZero(colour.green) => AtLeastZero(Clamped.green)
        /\ AtLeastZero(colour.blue) => AtLeastZero(Clamped.blue)
        /\ DividedByLargest(colour, Clamped)

\* a colour whose largest channel exceeds 1, clamped to channels of which
\* one lies strictly between 0 and 1
C17_Witness ==
    /\ clamp # None
    /\ ~HasNaN(colour)
    /\ F32Gt(Largest(colour), F32One)
    /\ \A x \in Channels(colour) : AtLeastZero(x)
    /\ \E x \in Channels(Clamped) : F32Sign(x) > 0 /\ F32Lt(x, F32One)

\* a negative channel stays negative
C17_WitnessNegative ==
    /\ clamp # None
    /\ ~HasNaN(colour)
    /\ F32Sign(colour.red) < 0
    /\ F32Sign(Clamped.red) < 0

----------------------------------------------------------------------------
(* Properties of the conversions between Colour and Rgb<u8> (checked      *)
(* under ColourSpec).  The exact value of a channel is compared as a       *)
(* natural number of any size, held as its digits to the base 2^12, the    *)
(* lowest first.                                                           *)

RECURSIVE BigOf(_)
BigOf(n) == IF n = 0 THEN <<>> ELSE <<n % Two12>> \o BigOf(n \div Two12)

\* x * k + carry
RECURSIVE BigTimes(_, _, _)
BigTimes(x, k, carry) ==
    IF x = <<>> THEN BigOf(carry)
    ELSE <<(Head(x) * k + carry) % Two12>>
             \o BigTimes(Tail(x), k, (Head(x) * k + carry) \div Two12)

\* x * 2^d
BigShift(x, d) ==
    IF x = <<>> THEN <<>>
    ELSE [i \in 1 .. (d \div 12) |-> 0] \o BigTimes(x, 2 ^ (d % 12), 0)

RECURSIVE BigLeqSame(_, _)
BigLeqSame(x, y) ==
    IF x = <<>> THEN TRUE
    ELSE IF x[Len(x)] # y[Len(y)] THEN x[Len(x)] < y[Len(y)]
    ELSE BigLeqSame(SubSeq(x, 1, Len(x) - 1), SubSeq(y, 1, Len(y) - 1))

\* x <= y
BigLeq(x, y) == Len(x) < Len(y) \/ (Len(x) = Len(y) /\ BigLeqSame(x, y))

\* k * a * 2^48 for an f32 a >= 2^-48 or 0
Exact(k, a) ==
    IF k = 0 \/ F32IsZero(a) THEN <<>>
    ELSE BigShift(BigTimes(BigOf(a[2]), k, 0), a[3] + 48)

\* k is the truncation of 255 * c / m, for c >= 0 and m > 0, in exact
\* arithmetic: k * m <= 255 * c < (k + 1) * m
IsTruncation(k, c, m) ==
    /\ BigLeq(Exact(k, m), Exact(255, c))
    /\ ~BigLeq(Exact(k + 1, m), Exact(255, c))

\* max(1, largest channel)
Divisor(c) == IF F32Gt(Largest(c), F32One) THEN Largest(c) ELSE F32One

NonNegative(c) == \A x \in Channels(c) : AtLeastZero(x)

\* the bytes that colour.into() returned
Bytes == returned(unwrap(pixel))

Channel(c, i) == <<c.red, c.green, c.blue>>[i]

\* a largest channel that is at least 1 has become 255
LargestIs255 ==
    \A i \in 1 .. 3 :
        (Channel(colour, i) = Largest(colour)
             /\ ~F32Lt(Largest(colour), F32One)) => Bytes[i] = 255

\* C18 as claimed, with 255 * channel / max(1, largest channel) read as
\* the f32 operations in that order
C18_ClaimedInF32_BytesAreTruncations ==
    (pixel # None /\ NonNegative(colour)) =>
        /\ unwrap(pixel) # Panic
        /\ \A i \in 1 .. 3 :
               Bytes[i] = F32ToU8(F32Div(F32Mul(F32Byte, Channel(colour, i)),
                                         Divisor(colour)))

C18_WitnessQuarterHalf ==
    /\ pixel # None
    /\ colour = Colour(F32Zero, F32Of(1, 4), F32Of(1, 2))
    /\ Bytes = <<0, 63, 127>>

\* C19: an Rgb<u8> converted to a Colour and that Colour converted to
\* Rgb<u8> gives the Rgb<u8> back.
C19_RoundTrip ==
    (source # None /\ pixel # None) => unwrap(pixel) = Ok(unwrap(source))

\* bytes other than 0 and 255 that have made the round trip
C19_Witness ==
    /\ source # None
    /\ pixel # None
    /\ \A i \in 1 .. 3 : unwrap(source)[i] \in 1 .. 254
    /\ colour = Colour_from(unwrap(source))
    /\ Bytes = unwrap(source)

----------------------------------------------------------------------------
(* Properties of Viewport (checked under ViewportSpec).                    *)

\* the rays of the last cast_ray
Rays == Casts[Len(Casts)].rays

\* C20: a Viewport built with point_rays_count = n has get_rays_count()
\* = n, and cast_ray yields a sequence of exactly n rays for every screen
\* point, none for n = 0.
C20_OneRayPerOffset ==
    /\ get_rays_count(viewport.out) = viewport.point_rays_count
    /\ cast # None =>
          /\ DOMAIN Rays = 1 .. viewport.point_rays_count
          /\ Len(Rays) = viewport.point_rays_count
          /\ viewport.point_rays_count = 0 => Rays = <<>>

\* two rays with a direction, cast through a screen point
C20_Witness ==
    /\ viewport.point_rays_count = 2
    /\ cast # None
    /\ Len(Rays) = 2
    /\ \A i \in 1 .. 2 : ~VIsNaN(Rays[i].direction)

\* no ray for no offset
C20_WitnessNone ==
    /\ viewport.point_rays_count = 0
    /\ cast # None
    /\ Rays = <<>>

\* C21: on one Viewport, every cast_ray call for the same screen point
\* yields the same rays in the same order, however many calls were made
\* in between, and no cast_ray call changes the Viewport.
C21_CastRayRepeats ==
    /\ [](\A i \in 1 .. Len(Casts), j \in 1 .. Len(Casts) :
             Casts[i].at = Casts[j].at => Casts[i].rays = Casts[j].rays)
    /\ [][cast' # None => viewport' = viewport]_vars

\* the same screen point again after another one, with rays that are told
\* apart from those of the other screen point
C21_Witness ==
    /\ Len(Casts) = 3
    /\ Casts[1].at = Casts[3].at
    /\ Casts[1].at # Casts[2].at
    /\ Len(Casts[1].rays) >= 2
    /\ Casts[1].rays = Casts[3].rays
    /\ Casts[1].rays # Casts[2].rays

\* all items of a sequence are the same value
AllAlike(items) ==
    \A i \in 1 .. Len(items), j \in 1 .. Len(items) : items[i] = items[j]

\* C29: the offsets of a Viewport are all the same vector, twice the half
\* of the noise at the one point it is asked at, and the rays of every
\* cast_ray call are all the same ray, for every point_rays_count.
C29_OffsetsAndRaysAlike ==
    /\ AllAlike(viewport.out.point_offsets)
    /\ \A k \in 1 .. Len(Casts) : AllAlike(Casts[k].rays)

\* as many equal rays as can be asked for, off the centre of the pixel
C29_Witness ==
    /\ viewport.point_rays_count = MaxRays
    /\ viewport.out.point_offsets[1] # <<Zero, Zero>>
    /\ Len(Casts) >= 1
    /\ Len(Rays) = MaxRays
    /\ ~VIsNaN(Rays[1].direction)
    /\ Rays[1] = Rays[MaxRays]

----------------------------------------------------------------------------
(* closest_hit and NaN (checked under HitSpec).                            *)

\* the hits that reach min_by for the ray
Compared(ray) == hit_candidates(triangles, ray, 0)

\* primitive i is hit by the ray at a distance that is NaN
HitsNowhere(i, ray) ==
    /\ RayTraceable_intersects(get_primitive(triangles, i), ray) # None
    /\ QIsNaN(HitDistance(i, ray))

\* C28: no hit at a NaN distance reaches the comparison of min_by, whose
\* partial_cmp(..).unwrap() would panic on it; closest_hit returns no hit
\* at a NaN distance, and returns None when every hit is at a NaN distance.
C28_NaNHitsAreDropped ==
    query # None =>
        /\ \A k \in 1 .. Len(Compared(unwrap(query).ray)) :
               ~QIsNaN(Compared(unwrap(query).ray)[k][3])
        /\ unwrap(query).hit # None =>
               ~QIsNaN(distance(unwrap(unwrap(query).hit).point,
                                unwrap(query).ray.origin))
        /\ (\A i \in Indices : ~Hits(i, unwrap(query).ray))
               => unwrap(query).hit = None

\* a hit at a NaN distance is added before and after a hit at a distance,
\* and the hit at a distance is returned
C28_Witness ==
    /\ query # None
    /\ Len(triangles.primitives) = 3
    /\ HitsNowhere(0, unwrap(query).ray)
    /\ Hits(1, unwrap(query).ray)
    /\ HitsNowhere(2, unwrap(query).ray)
    /\ unwrap(query).hit # None
    /\ unwrap(unwrap(query).hit).index = 1

\* every hit is at a NaN distance
C28_WitnessNone ==
    /\ query # None
    /\ Len(triangles.primitives) = 2
    /\ \A i \in Indices : HitsNowhere(i, unwrap(query).ray)
    /\ unwrap(query).hit = None

----------------------------------------------------------------------------
(* The boundary of a Triangle (checked under TriSpec).                     *)

\* q lies on an edge or at a vertex of t
OnBoundary(t, q) == Within(t, q) /\ ~StrictlyInside(t, q)

\* C26 as claimed: a ray that is not parallel to the plane of the triangle
\* and meets it at t >= 0 in a point on an edge or at a vertex is reported
\* by intersects as Some(point).
C26_Claimed_BoundaryPointsHit ==
    shot # None =>
        ((/\ NonDegenerate(tri)
          /\ ~VIsNaN(unwrap(shot).ray.direction)
          /\ ~Parallel(tri, unwrap(shot).ray)
          /\ ~QLt(TrueParameter(tri, unwrap(shot).ray), Zero)
          /\ OnBoundary(tri, TruePoint(tri, unwrap(shot).ray)))
            => unwrap(shot).out = Some(TruePoint(tri, unwrap(shot).ray)))

\* the triangle of the scene tests, in the plane z = 0, met from below in
\* the middle of its edge from (-1, -1, 0) to (1, -1, 0): no hit
C26_WitnessEdgeOfTriA ==
    /\ shot # None
    /\ tri = TriA
    /\ unwrap(shot).ray = Ray_new(P3(0, -1, -1), P3(0, 0, 1))
    /\ TruePoint(tri, unwrap(shot).ray) = P3(0, -1, 0)
    /\ OnBoundary(tri, P3(0, -1, 0))
    /\ unwrap(shot).out = None

----------------------------------------------------------------------------
(* The reflected ray (checked under ReflectSpec).                          *)

\* d - 2 (d . n) n for the unit vector of n, up to the length of d
Mirror(d, n) ==
    VAdd(d, VScale(QMul(QInt(-2), QDiv(VDot(n, d), VDot(n, n))), n))

HitNormal == get_normal(get_primitive(triangles, unwrap(unwrap(query).hit).index))

\* C27 as claimed: for every hit, whatever the hit point and the plane,
\* the direction of the reflected ray is the normalised d - 2 (d . n) n
\* and its origin is hit.point + 2 * epsilon * (reflected direction).
C27_Claimed_MirrorReflection ==
    query # None =>
        /\ unwrap(query).reflected_ray.direction =
               new_normalize(Mirror(unwrap(query).ray.direction, HitNormal))
        /\ unwrap(query).reflected_ray.origin =
               [point |-> unwrap(unwrap(query).hit).point, by |-> TwoEpsilon,
                along |-> unwrap(query).reflected_ray.direction]

\* a hit in a plane through the coordinate origin, where the reflected
\* direction is the mirrored one, and a hit of the triangle in the plane
\* z = 1, where it is not
C27_WitnessMirrored ==
    /\ query # None
    /\ VDot(HitNormal, unwrap(unwrap(query).hit).point) = Zero
    /\ unwrap(query).ray.direction = P3(0, 3, 4)
    /\ unwrap(query).reflected_ray.direction = P3(0, 3, -4)

C27_WitnessNotMirrored ==
    /\ query # None
    /\ get_primitive(triangles, unwrap(unwrap(query).hit).index) = TriB
    /\ unwrap(query).reflected_ray.direction #
           new_normalize(Mirror(unwrap(query).ray.direction, HitNormal))

----------------------------------------------------------------------------
(* The light of a hit (checked under Spec).                                *)

\* the calls of trace_until in progress that hit a primitive and are about
\* to return
HitReturns == {i \in 1 .. Len(stack) : stack[i].pc = "ret" /\ stack[i].hit # None}

\* C25: a call at step = recursion_depth that hits a primitive returns
\* diffuse = emission = material.emission + material.diffuse *
\* default_material.emission for the material stored at the hit index, and
\* every call that hits, at any step, returns diffuse = emission.
C25_ExhaustedHitIsLitByDefault ==
    \A i \in HitReturns :
        /\ stack[i].trace_result.diffuse = stack[i].trace_result.emission
        /\ stack[i].step = recursion_depth =>
               stack[i].trace_result.emission =
                   Lit(unwrap(stack[i].hit).index, default_material.emission)

\* a call at step = recursion_depth = 1 returns the light of a material
\* whose emission is not zero, under a default material whose two fields
\* differ, while the call at step 0 that made it waits
C25_Witness ==
    /\ recursion_depth = 1
    /\ Len(stack) = 2
    /\ 2 \in HitReturns
    /\ get_material(triangles, unwrap(stack[2].hit).index).emission # ColourDefault
    /\ default_material.emission # default_material.diffuse
    /\ stack[2].trace_result.emission # ColourDefault

\* a call at a step below recursion_depth returns after its beam
C25_WitnessBelow ==
    /\ recursion_depth = 2
    /\ beam_rays_count = 1
    /\ Len(stack) = 1
    /\ 1 \in HitReturns
    /\ Len(stack[1].path) = 3

----------------------------------------------------------------------------
(* The beam of a hit that recurses (checked under Spec).                   *)

\* the emission fields of these results, added up from zero in their order
RECURSIVE SumEmission(_)
SumEmission(lights) ==
    IF lights = <<>> THEN ColourDefault
    ELSE ColourAdd(SumEmission(SubSeq(lights, 1, Len(lights) - 1)),
                   lights[Len(lights)].emission)

\* the calls of trace_until in progress that hit a primitive at a step
\* below recursion_depth
Recursers == {i \in 1 .. Len(stack) : stack[i].hit # None /\ stack[i].step < recursion_depth}

\* the ray reflected at the hit of the call in stack[i]
ReflectedAt(i) == get_reflected_ray(triangles, stack[i].ray, unwrap(stack[i].hit))

\* C24: a call of trace_until that hits at a step d < recursion_depth makes
\* exactly beam_rays_count recursive calls, each at step d + 1 and each on a
\* ray of the beam that starts at the origin of the reflected ray; the
\* light it applies its material to is the sum of the emission fields of
\* what these calls return, divided by beam_rays_count, and their diffuse
\* fields play no part.  The other calls make no recursive call.
C24_BeamIsAveraged ==
    \A i \in 1 .. Len(stack) :
        IF i \in Recursers
        THEN /\ Len(stack[i].lights) = stack[i].k
             /\ stack[i].k <= beam_rays_count
             /\ Len(stack[i].beam) = (IF i < Len(stack) THEN stack[i].k + 1 ELSE stack[i].k)
             /\ i < Len(stack) => stack[i + 1].step = stack[i].step + 1
             /\ \A j \in 1 .. Len(stack[i].beam) :
                    stack[i].beam[j].origin = ReflectedAt(i).origin
             /\ stack[i].pc = "loop" =>
                    stack[i].trace_result.emission = SumEmission(stack[i].lights)
             /\ stack[i].pc = "ret" =>
                    /\ stack[i].k = beam_rays_count
                    /\ stack[i].trace_result.emission =
                           Lit(unwrap(stack[i].hit).index,
                               ColourDivScalar(SumEmission(stack[i].lights),
                                               QInt(beam_rays_count)))
        ELSE /\ i = Len(stack)
             /\ stack[i].beam = <<>>
             /\ stack[i].lights = <<>>

\* a call returns after a beam of two rays of different directions whose
\* calls returned different results, one of them with a diffuse field that
\* is not its emission field
C24_Witness ==
    /\ beam_rays_count = 2
    /\ Len(stack) = 1
    /\ 1 \in Recursers
    /\ stack[1].pc = "ret"
    /\ Len(stack[1].lights) = 2
    /\ stack[1].lights[1].emission # stack[1].lights[2].emission
    /\ stack[1].lights[1].diffuse # stack[1].lights[1].emission
    /\ stack[1].beam[1].direction # stack[1].beam[2].direction
    /\ stack[1].beam[1].origin.point = unwrap(stack[1].hit).point

\* with recursion_depth = 2 the call at step 1 is in its loop and the call
\* it made at step 2 is in progress
C24_WitnessNested ==
    /\ Len(stack) = 3
    /\ Recursers = {1, 2}
    /\ stack[3].hit # None

----------------------------------------------------------------------------
(* What tracing leaves alone (checked under Spec).                         *)

\* C23: tracing never changes the Scene.  No step of a trace changes the
\* primitives, the materials, default_material, recursion_depth or
\* beam_rays_count; the three settings never change, and the primitives and
\* materials change only by an add_triangle, made while no trace is in
\* progress, which appends its two arguments.
C23_TracingLeavesSceneAlone ==
    [][/\ (stack # <<>> \/ stack' # <<>>) =>
              UNCHANGED <<triangles, default_material, recursion_depth, beam_rays_count>>
       /\ UNCHANGED <<default_material, recursion_depth, beam_rays_count>>
       /\ triangles' # triangles =>
              /\ stack = <<>> /\ stack' = <<>>
              /\ Len(adds') = Len(adds) + 1
              /\ triangles' = add(triangles, adds'[Len(adds')][1], adds'[Len(adds')][2])]_vars

\* a trace that recursed has returned in a scene of two triangles
C23_Witness ==
    /\ result # None
    /\ stack = <<>>
    /\ calls >= 2
    /\ Len(triangles.primitives) = 2
    /\ Len(triangles.materials) = 2

----------------------------------------------------------------------------
(* A trace and the traces before it (checked under OrderSpec).             *)

\* a trace that returned before, in the same scene
Earlier == unwrap(earlier)[1]

\* the call of trace is about to return, and a trace of the same ray
\* returned before it in the same scene
Again ==
    /\ Len(stack) = 1
    /\ Top.pc = "ret"
    /\ earlier # None
    /\ earlier # Some(<<>>)
    /\ Earlier.ray = Top.ray

C22_WitnessOtherDraws ==
    /\ Again
    /\ Top.draws # Earlier.draws
    /\ Top.trace_result.diffuse # Earlier.colour

----------------------------------------------------------------------------
(* The two fields of the default material (checked under OrderSpec).       *)

\* Scene::trace_until(ray, step) as a function of the default material and
\* of the draws of get_beam, in a scene that is this one in the rest.  It
\* gives the TraceResult and the draws it leaves.
RECURSIVE trace_until_with(_, _, _, _)
RECURSIVE beam_with(_, _, _, _, _)

\* trace_result.add_light(&tr) for what the call on a beam ray gave, and
\* the rest of the loop
beam_next(material, step, count, trace_result, tr) ==
    beam_with(material, step, count, tr.rest, add_light(trace_result, tr.trace_result))

\* the loop over the beam: count calls are still to make, trace_result
\* holds the light of those made
beam_with(material, step, count, draws, trace_result) ==
    IF count = 0 THEN [trace_result |-> trace_result, rest |-> draws]
    ELSE beam_next(material, step, count - 1, trace_result,
                   trace_until_with(material, draws[1][2], step + 1, Tail(draws)))

\* trace_result.emission /= beam_rays_count, then apply_to(material)
averaged_with(beam, index) ==
    [trace_result |->
         apply_to([beam.trace_result EXCEPT
                      !.emission = ColourDivScalar(@, QInt(beam_rays_count))],
                  get_material(triangles, index)),
     rest |-> beam.rest]

\* trace_until after let hit = self.closest_hit(ray)
trace_until_hit_with(material, step, draws, hit) ==
    IF hit = None
    THEN [trace_result |-> TraceResult_from(material), rest |-> draws]
    ELSE IF may_recurse(step)
         THEN averaged_with(beam_with(material, step, beam_rays_count, draws,
                                      TraceResultDefault),
                            unwrap(hit).index)
         ELSE [trace_result |->
                   apply_to(TraceResult_from(material),
                            get_material(triangles, unwrap(hit).index)),
               rest |-> draws]

trace_until_with(material, ray, step, draws) ==
    trace_until_hit_with(material, step, draws, Scene_closest_hit(ray))

\* Scene::trace(ray) in the scene with this default material
trace_with(material, ray, draws) == trace_until_with(material, ray, 0, draws).trace_result.diffuse

\* the call of trace is about to return, in a scene that keeps the draws
Returning == Len(stack) = 1 /\ Top.pc = "ret" /\ earlier # None

\* C30: when the primary ray hits a primitive, the scenes that differ from
\* this one only in default_material.diffuse return, for the same draws,
\* the Colour this one returns; when the primary ray hits nothing, so do
\* the scenes that differ from it only in default_material.emission.  The
\* scene itself is among both.
C30_DefaultFieldsDoNotInterfere ==
    Returning =>
        \A material \in OrderDefaults :
            /\ (Top.hit # None /\ material.emission = default_material.emission) =>
                   trace_with(material, Top.ray, Top.draws) = Top.trace_result.diffuse
            /\ (Top.hit = None /\ material.diffuse = default_material.diffuse) =>
                   trace_with(material, Top.ray, Top.draws) = Top.trace_result.diffuse

\* the primary ray hit and the ray of its beam hit nothing: the light is
\* that of the default material, whose two fields differ
C30_Witness ==
    /\ Returning
    /\ Top.hit # None
    /\ Len(Top.draws) = 1
    /\ Top.path = <<unwrap(Top.hit).index, -1>>
    /\ default_material.diffuse # default_material.emission
    /\ Top.trace_result.diffuse # get_material(triangles, unwrap(Top.hit).index).emission

\* the primary ray hit nothing, in a scene with triangles
C30_WitnessMiss ==
    /\ Returning
    /\ Top.hit = None
    /\ Len(triangles.primitives) = 2
    /\ default_material.diffuse # default_material.emission

====
